---- MODULE Spec2Model ----
(***************************************************************************)
(* Pharma-Flow front end: the bill drafts of the Pharmacy (point of sale)  *)
(* and Inventory (purchase entry) pages, the supplier bills of the         *)
(* Payments page, the patient name of the OP form, the list of the Returns *)
(* screen and the session (AuthProvider, ProtectedRoute, Login) as a state *)
(* machine.                                                                *)
(*                                                                         *)
(* One page is mounted at a time (MainApp.renderContent); mounting a page  *)
(* creates its React state afresh.  Every action is one event handler (or  *)
(* one continuation of an async handler after an await) together with the *)
(* effects React runs in the commit that follows it.                       *)
(*                                                                         *)
(* Money is counted in mills (1/1000 of a rupee) so that amounts with more *)
(* than two decimals, which the number inputs accept, exist in the model   *)
(* and toFixed(2) is a real rounding.  Arithmetic is exact decimal          *)
(* arithmetic; binary floating-point error is not modelled.                *)
(*                                                                         *)
(* A text typed into a quantity box is a sequence of characters; the text  *)
(* of a money box is <<>> for '' and <<v>> for the decimal numeral of v    *)
(* mills (a type="number" input yields '' for anything that is no number). *)
(***************************************************************************)
EXTENDS Integers, Sequences, FiniteSets, TLC

VARIABLES
    activeItem,       \* MainApp: the mounted page
    toast,            \* the toast raised by the most recent handler, NoToast if none
    \* ---- Pharmacy ----
    patients, loadingPatients,
    patientName, phoneNo, isNewPatient,
    medicines, loadingMedicines,
    selectedMedicine, quantity,
    billItems, itemCounter,
    discount, paymentMode, cashAmount, upiAmount,
    submitting, submitMessage,
    invoicePost,      \* POST /pharmacy/api/invoice in flight: <<>> or <<request>>
    refreshing,       \* GET today-patients of handleSubmit in flight
    \* ---- Inventory ----
    invBillDate, invBillNo, invDeliveryDate, invAgency,
    invBillAmount, invTaxAmount, invDiscountInBill, invDiscountAmount,
    invMedicines, invLoadingMedicines,
    invSelectedMedicine, invMedicineDetails, invQuantity, invPurchasePrice,
    invItems, invItemCounter,
    invIsSubmitting, invMessage,
    billPost,         \* POST /inventory/api/bill in flight: <<>> or <<request>>
    detailsGets,      \* names with a GET /inventory/api/medicine/<name> in flight
    \* ---- Inventory: update-price modal ----
    showUpdatePriceModal, updateMedicineName, currentPriceDetails, newMRP,
    showPriceUpdateConfirm, updatingPrice, loadingPriceDetails,
    updatePricePost,  \* POST /inventory/update-price in flight: <<>> or <<request>>
    priceDetailsGets, \* names with a GET /inventory/api/medicine-details in flight
    priceErrorLogged, \* console.error('Failed to update price:') was called
    \* ---- Payments ----
    payBills, payLoading,
    payBillsGets,     \* number of GET /payments/api/bills in flight
    paymentModal,     \* <<>> when closed, <<bill>> when open
    payMode, payAmountPaid, payIsProcessing, payMessage,
    markPaidPost,     \* POST /payments/api/mark-paid/<id> in flight: <<>> or <<request>>
    \* ---- AuthProvider, ProtectedRoute, Login ----
    localStorage,     \* <<>> or <<[auth_token, username]>>: the two items are set and removed together
    isAuthenticated, authUsername, authIsLoading,
    location,         \* the router's path: "/login" or "/"
    verifyGet,        \* GET /api/auth/verify in flight
    loginPost,        \* POST /api/auth/login in flight: <<>> or <<credentials>>
    loginIsLoading,   \* Login.isLoading
    mainAppMounted,   \* ProtectedRoute rendered its children in the last commit
    \* ---- OP ----
    opPatientName, opUhid,
    uhidTimers,       \* names with a 500 ms timeout pending (a bag: one entry per timeout)
    uhidGets,         \* names with a GET /patient/api/generate-uhid in flight (a bag)
    \* ---- Returns ----
    returns, retItemCounter,
    retMedicineName, retQuantity, retReason,
    retMessage,
    deleteConfirm     \* <<>> when closed, <<id>> when the dialog asks about return id

pharmacyVars == <<patients, loadingPatients, patientName, phoneNo, isNewPatient,
                  medicines, loadingMedicines, selectedMedicine, quantity,
                  billItems, itemCounter, discount, paymentMode, cashAmount,
                  upiAmount, submitting, submitMessage, invoicePost, refreshing>>

inventoryVars == <<invBillDate, invBillNo, invDeliveryDate, invAgency,
                   invBillAmount, invTaxAmount, invDiscountInBill,
                   invDiscountAmount, invMedicines, invLoadingMedicines,
                   invSelectedMedicine, invMedicineDetails, invQuantity,
                   invPurchasePrice, invItems, invItemCounter, invIsSubmitting,
                   invMessage, billPost, detailsGets>>

priceVars == <<showUpdatePriceModal, updateMedicineName, currentPriceDetails, newMRP,
               showPriceUpdateConfirm, updatingPrice, loadingPriceDetails,
               updatePricePost, priceDetailsGets, priceErrorLogged>>

paymentsVars == <<payBills, payLoading, payBillsGets, paymentModal, payMode,
                  payAmountPaid, payIsProcessing, payMessage, markPaidPost>>

authVars == <<localStorage, isAuthenticated, authUsername, authIsLoading, location,
              verifyGet, loginPost, loginIsLoading, mainAppMounted>>

opVars == <<opPatientName, opUhid, uhidTimers, uhidGets>>

returnsVars == <<returns, retItemCounter, retMedicineName, retQuantity, retReason,
                 retMessage, deleteConfirm>>

vars == <<activeItem, toast, pharmacyVars, inventoryVars, priceVars, paymentsVars,
          authVars, opVars, returnsVars>>

----------------------------------------------------------------------------
(* Bounds and input domains *)

\* accepted lines per mounted page (caps itemCounter)
MaxItems == 3

\* mills in one hundredth of a rupee: the unit of toFixed(2) and of the 0.01 tolerance
Cent == 10

\* GET /pharmacy/api/medicines, success
Catalog ==
    << [MId |-> 1, MName |-> "Paracetamol", MRP |-> 10000, CurrentStock |-> 2],
       [MId |-> 2, MName |-> "Amoxicillin", MRP |-> 15000, CurrentStock |-> 3] >>

\* GET /pharmacy/api/today-patients, success
TodayPatients == << [PName |-> "Asha", Phone |-> "9876543210"] >>

\* texts typed into the quantity box
QtyInputs == { <<>>, <<"0">>, <<"2">>, <<"3">>, <<"2", ".", "5">>, <<".", "5">> }

\* the most GETs of the supplier bills in flight at once
\* timeouts and generate-uhid requests of the OP form pending at once
MaxPending == 2
\* ids the Returns screen hands out (the list starts with ids 1 and 2)
MaxReturns == 4
MaxFetches == 2

\* supplier bills the backend lists: one unpaid, one paid, and the first one paid
UnpaidBill == [BillId |-> "B1", BillNo |-> "101", BillTotal |-> 50000,
               BillPaymentStatus |-> "unpaid"]
PaidBill == [BillId |-> "B2", BillNo |-> "102", BillTotal |-> 30000,
             BillPaymentStatus |-> "paid"]
BillListings ==
    { <<>>, << UnpaidBill, PaidBill >>,
      << [UnpaidBill EXCEPT !.BillPaymentStatus = "paid"], PaidBill >> }

\* options of the payment mode select of the payment modal
PayModes == { "", "Cash", "Bank Transfer", "Cheque", "UPI" }

\* texts typed into the Amount Paid box: '', 0, 30.00, -5.00
AmountPaidInputs == { <<>>, <<0>>, <<30000>>, <<0 - 5000>> }

\* texts typed into the cash and UPI boxes (mode Both): 10.00 / 5.00, 4.99, 4.98
CashInputs == { <<>>, <<10000>> }
UpiInputs == { <<>>, <<5000>>, <<4990>>, <<4980>> }

\* digits typed into the phone box
PhoneInputs == { "", "12345" }

PaymentModes == { "", "Cash", "UPI", "Both" }

----------------------------------------------------------------------------
(* JavaScript helpers *)

Digits == { "0", "1", "2", "3", "4", "5", "6", "7", "8", "9" }

DigitVal(c) ==
    CASE c = "0" -> 0 [] c = "1" -> 1 [] c = "2" -> 2 [] c = "3" -> 3
      [] c = "4" -> 4 [] c = "5" -> 5 [] c = "6" -> 6 [] c = "7" -> 7
      [] c = "8" -> 8 [] c = "9" -> 9

\* the run of digits at the head of s: [n |-> its length, v |-> its value]
RECURSIVE LeadingDigits(_, _)
LeadingDigits(s, acc) ==
    IF s = <<>> \/ Head(s) \notin Digits
    THEN acc
    ELSE LeadingDigits(Tail(s), [n |-> acc.n + 1, v |-> 10 * acc.v + DigitVal(Head(s))])

\* a number-or-NaN result: <<>> is NaN, <<v>> the number v
NaN == <<>>
isNaN(r) == r = NaN

\* parseInt(s): optional sign, then the leading digits; NaN when there are none
parseInt(s) ==
    LET signed == s # <<>> /\ Head(s) \in {"-", "+"}
        body == IF signed THEN Tail(s) ELSE s
        run == LeadingDigits(body, [n |-> 0, v |-> 0])
    IN  IF run.n = 0 THEN NaN
        ELSE IF signed /\ Head(s) = "-" THEN << 0 - run.v >> ELSE << run.v >>

\* parseFloat(t) || 0 on the text of a money box
parseFloatOr0(t) == IF t = <<>> THEN 0 ELSE t[1]

\* x.toFixed(2) for x >= 0: the numeral of the nearest hundredth (ties upward)
toFixed2(x) == << ((x + (Cent \div 2)) \div Cent) * Cent >>

Max(a, b) == IF a >= b THEN a ELSE b
Abs(a) == IF a >= 0 THEN a ELSE 0 - a

\* array.find(m => m.MName === name): <<>> when absent, else <<the first match>>
FindMedicine(list, name) ==
    LET idx == { i \in 1..Len(list) : list[i].MName = name }
    IN  IF idx = {} THEN <<>>
        ELSE << list[CHOOSE i \in idx : \A j \in idx : i <= j] >>

FindPatient(list, name) ==
    LET idx == { i \in 1..Len(list) : list[i].PName = name }
    IN  IF idx = {} THEN <<>>
        ELSE << list[CHOOSE i \in idx : \A j \in idx : i <= j] >>

\* mutant of FilterOutId: the line is taken out by its position, not by its id
FilterOutId_ByPosition(items, id) ==
    [ i \in 1..(Len(items) - (IF id <= Len(items) THEN 1 ELSE 0)) |->
        IF i < id THEN items[i] ELSE items[i + 1] ]

\* array.filter(item => item.id !== id)
RECURSIVE FilterOutId(_, _)
FilterOutId(items, id) ==
    IF items = <<>> THEN <<>>
    ELSE IF Head(items).id # id
         THEN <<Head(items)>> \o FilterOutId(Tail(items), id)
         ELSE FilterOutId(Tail(items), id)

\* billItems.reduce((sum, item) => sum + item.total, 0)
\* mutant of SumTotals: the quantity applied a second time
RECURSIVE SumTotals_TimesQty(_)
SumTotals_TimesQty(items) ==
    IF items = <<>> THEN 0
    ELSE Head(items).total * Head(items).qty + SumTotals_TimesQty(Tail(items))

RECURSIVE SumTotals(_)
SumTotals(items) ==
    IF items = <<>> THEN 0
    ELSE SumTotals(SubSeq(items, 1, Len(items) - 1)) + items[Len(items)].total

\* api.interceptors.response: a response with status 401 removes auth_token and
\* username from localStorage before the caller's catch runs; nothing else of
\* the session is touched
ResponseInterceptor(unauthorized) ==
    /\ localStorage' = IF unauthorized THEN <<>> ELSE localStorage
    /\ UNCHANGED <<isAuthenticated, authUsername, authIsLoading, location,
                   verifyGet, loginPost, loginIsLoading, mainAppMounted>>

NoToast == [type |-> "none", message |-> ""]
Toast(type, message) == [type |-> type, message |-> message]

----------------------------------------------------------------------------
(* Pharmacy: derived values (recomputed on every render) *)

grandTotal == SumTotals(billItems)
discountValue == parseFloatOr0(discount)
\* mutant of FinalAmountOf: the clamp at zero forgotten
FinalAmountOf_NoClamp(total, disc) == total - disc

\* Math.max(grandTotal - discountValue, 0)
FinalAmountOf(total, disc) == Max(total - disc, 0)
finalAmount == FinalAmountOf(grandTotal, discountValue)

\* useEffect(..., [paymentMode, finalAmount]): cashH and upiH are the texts the
\* handler itself leaves in the two boxes; the effect runs in the same commit when
\* one of its dependencies changed.
\* mutant of PaymentModeEffect: the amount is written unformatted
PaymentModeEffect_Unformatted(cashH, upiH) ==
    IF paymentMode' = paymentMode /\ finalAmount' = finalAmount
    THEN cashAmount' = cashH /\ upiAmount' = upiH
    ELSE IF paymentMode' = "Cash"
    THEN cashAmount' = << finalAmount' >> /\ upiAmount' = <<0>>
    ELSE IF paymentMode' = "UPI"
    THEN upiAmount' = << finalAmount' >> /\ cashAmount' = <<0>>
    ELSE IF paymentMode' = "Both"
    THEN cashAmount' = <<>> /\ upiAmount' = <<>>
    ELSE cashAmount' = cashH /\ upiAmount' = upiH

PaymentModeEffect(cashH, upiH) ==
    IF paymentMode' = paymentMode /\ finalAmount' = finalAmount
    THEN cashAmount' = cashH /\ upiAmount' = upiH
    ELSE IF paymentMode' = "Cash"
    THEN cashAmount' = toFixed2(finalAmount') /\ upiAmount' = <<0>>
    ELSE IF paymentMode' = "UPI"
    THEN upiAmount' = toFixed2(finalAmount') /\ cashAmount' = <<0>>
    ELSE IF paymentMode' = "Both"
    THEN cashAmount' = <<>> /\ upiAmount' = <<>>
    ELSE cashAmount' = cashH /\ upiAmount' = upiH

----------------------------------------------------------------------------
(* Pharmacy: state of a freshly mounted page *)

NoMessage == [type |-> "none"]

\* the useState initial values of Pharmacy
PharmacyInit ==
    /\ patients = <<>> /\ loadingPatients = TRUE
    /\ patientName = "" /\ phoneNo = "" /\ isNewPatient = FALSE
    /\ medicines = <<>> /\ loadingMedicines = TRUE
    /\ selectedMedicine = "" /\ quantity = <<>>
    /\ billItems = <<>> /\ itemCounter = 0
    /\ discount = <<>> /\ paymentMode = ""
    /\ cashAmount = <<>> /\ upiAmount = <<>>
    /\ submitting = FALSE /\ submitMessage = NoMessage
    /\ invoicePost = <<>> /\ refreshing = FALSE

\* the same values given to the next state: the page is mounted (again)
PharmacyMount ==
    /\ patients' = <<>> /\ loadingPatients' = TRUE
    /\ patientName' = "" /\ phoneNo' = "" /\ isNewPatient' = FALSE
    /\ medicines' = <<>> /\ loadingMedicines' = TRUE
    /\ selectedMedicine' = "" /\ quantity' = <<>>
    /\ billItems' = <<>> /\ itemCounter' = 0
    /\ discount' = <<>> /\ paymentMode' = ""
    /\ cashAmount' = <<>> /\ upiAmount' = <<>>
    /\ submitting' = FALSE /\ submitMessage' = NoMessage
    /\ invoicePost' = <<>> /\ refreshing' = FALSE

onPharmacy == mainAppMounted /\ activeItem = "Pharmacy"

----------------------------------------------------------------------------
(* Pharmacy: handlers *)

\* fetchPatients settles: data is the list on success, [] on failure
FetchPatientsDone(data) ==
    /\ onPharmacy /\ loadingPatients
    /\ patients' = data
    /\ loadingPatients' = FALSE
    /\ toast' = NoToast
    /\ UNCHANGED <<authVars, opVars, returnsVars, inventoryVars, priceVars, paymentsVars, activeItem, patientName, phoneNo, isNewPatient, medicines,
                   loadingMedicines, selectedMedicine, quantity, billItems,
                   itemCounter, discount, paymentMode, cashAmount, upiAmount,
                   submitting, submitMessage, invoicePost, refreshing>>

\* fetchMedicines settles: data is the list on success, [] on failure
FetchMedicinesDone(data) ==
    /\ onPharmacy /\ loadingMedicines
    /\ medicines' = data
    /\ loadingMedicines' = FALSE
    /\ toast' = NoToast
    /\ UNCHANGED <<authVars, opVars, returnsVars, inventoryVars, priceVars, paymentsVars, activeItem, patients, loadingPatients, patientName, phoneNo,
                   isNewPatient, selectedMedicine, quantity, billItems,
                   itemCounter, discount, paymentMode, cashAmount, upiAmount,
                   submitting, submitMessage, invoicePost, refreshing>>

\* the patient select is rendered once the list has loaded
HandlePatientSelect(value) ==
    /\ onPharmacy /\ ~loadingPatients
    /\ LET existing == FindPatient(patients, value)
       IN  IF existing # <<>>
           THEN /\ patientName' = existing[1].PName
                /\ phoneNo' = existing[1].Phone
                /\ isNewPatient' = FALSE
           ELSE IF value # ""
           THEN /\ patientName' = value
                /\ phoneNo' = ""
                /\ isNewPatient' = TRUE
           ELSE /\ patientName' = ""
                /\ phoneNo' = ""
                /\ isNewPatient' = FALSE
    /\ toast' = NoToast
    /\ UNCHANGED <<authVars, opVars, returnsVars, inventoryVars, priceVars, paymentsVars, activeItem, patients, loadingPatients, medicines,
                   loadingMedicines, selectedMedicine, quantity, billItems,
                   itemCounter, discount, paymentMode, cashAmount, upiAmount,
                   submitting, submitMessage, invoicePost, refreshing>>

SetPhoneNo(p) ==
    /\ onPharmacy
    /\ phoneNo' = p
    /\ toast' = NoToast
    /\ UNCHANGED <<authVars, opVars, returnsVars, inventoryVars, priceVars, paymentsVars, activeItem, patients, loadingPatients, patientName,
                   isNewPatient, medicines, loadingMedicines, selectedMedicine,
                   quantity, billItems, itemCounter, discount, paymentMode,
                   cashAmount, upiAmount, submitting, submitMessage,
                   invoicePost, refreshing>>

\* the medicine select (allowCreate = false) offers the loaded names
HandleMedicineSelect(value) ==
    /\ onPharmacy /\ ~loadingMedicines
    /\ value = "" \/ FindMedicine(medicines, value) # <<>>
    /\ selectedMedicine' = value
    /\ toast' = NoToast
    /\ UNCHANGED <<authVars, opVars, returnsVars, inventoryVars, priceVars, paymentsVars, activeItem, patients, loadingPatients, patientName, phoneNo,
                   isNewPatient, medicines, loadingMedicines, quantity,
                   billItems, itemCounter, discount, paymentMode, cashAmount,
                   upiAmount, submitting, submitMessage, invoicePost, refreshing>>

SetQuantity(q) ==
    /\ onPharmacy
    /\ quantity' = q
    /\ toast' = NoToast
    /\ UNCHANGED <<authVars, opVars, returnsVars, inventoryVars, priceVars, paymentsVars, activeItem, patients, loadingPatients, patientName, phoneNo,
                   isNewPatient, medicines, loadingMedicines, selectedMedicine,
                   billItems, itemCounter, discount, paymentMode, cashAmount,
                   upiAmount, submitting, submitMessage, invoicePost, refreshing>>

\* the stock check of handleAddMedicine
\* mutant of InsufficientStock: a request for the whole stock refused
InsufficientStock_WholeStockRefused(qty, stock) == qty >= stock

InsufficientStock(qty, stock) == qty > stock

\* mutant of NewBillItem: the id taken from the number of lines
NewBillItem_LengthId(medicine, qty) ==
    [ id |-> Len(billItems) + 1,
      name |-> medicine.MName,
      qty |-> qty,
      price |-> medicine.MRP,
      total |-> medicine.MRP * qty,
      mid |-> medicine.MId ]

\* the line handleAddMedicine builds
NewBillItem(medicine, qty) ==
    [ id |-> itemCounter + 1,
      name |-> medicine.MName,
      qty |-> qty,
      price |-> medicine.MRP,
      total |-> medicine.MRP * qty,
      mid |-> medicine.MId ]

\* "Add to Bill" is enabled when a medicine is selected and the quantity box is not empty
HandleAddMedicine ==
    /\ onPharmacy
    /\ selectedMedicine # "" /\ quantity # <<>>
    /\ itemCounter < MaxItems
    /\ UNCHANGED <<authVars, opVars, returnsVars, inventoryVars, priceVars, paymentsVars, activeItem, patients, loadingPatients, patientName, phoneNo,
                   isNewPatient, medicines, loadingMedicines, discount,
                   paymentMode, submitting, submitMessage, invoicePost, refreshing>>
    /\ LET found == FindMedicine(medicines, selectedMedicine)
           qty == parseInt(quantity)
           reject(t) ==
               /\ toast' = t
               /\ UNCHANGED <<selectedMedicine, quantity, billItems, itemCounter,
                              cashAmount, upiAmount>>
       IN  IF selectedMedicine = "" \/ quantity = <<>>
           THEN reject(Toast("warning", "Please select medicine and enter quantity"))
           ELSE IF found = <<>>
           THEN reject(Toast("error", "Medicine not found"))
           ELSE IF isNaN(qty) \/ qty[1] <= 0
           THEN reject(Toast("warning", "Please enter a valid quantity"))
           ELSE IF InsufficientStock(qty[1], found[1].CurrentStock)
           THEN reject(Toast("error", "Insufficient stock"))
           ELSE /\ billItems' = Append(billItems, NewBillItem(found[1], qty[1]))
                /\ itemCounter' = itemCounter + 1
                /\ selectedMedicine' = ""
                /\ quantity' = <<>>
                /\ toast' = NoToast
                /\ PaymentModeEffect(cashAmount, upiAmount)

\* the trash button of a row
HandleRemoveMedicine(id) ==
    /\ onPharmacy
    /\ \E i \in 1..Len(billItems) : billItems[i].id = id
    /\ billItems' = FilterOutId(billItems, id)
    /\ toast' = NoToast
    /\ UNCHANGED <<authVars, opVars, returnsVars, inventoryVars, priceVars, paymentsVars, activeItem, patients, loadingPatients, patientName, phoneNo,
                   isNewPatient, medicines, loadingMedicines, selectedMedicine,
                   quantity, itemCounter, discount, paymentMode, submitting,
                   submitMessage, invoicePost, refreshing>>
    /\ PaymentModeEffect(cashAmount, upiAmount)

\* handleClearAll opens the dialog when there are lines; confirmClearAll empties them
ConfirmClearAll ==
    /\ onPharmacy
    /\ billItems # <<>>
    /\ billItems' = <<>>
    /\ toast' = Toast("info", "All items cleared")
    /\ UNCHANGED <<authVars, opVars, returnsVars, inventoryVars, priceVars, paymentsVars, activeItem, patients, loadingPatients, patientName, phoneNo,
                   isNewPatient, medicines, loadingMedicines, selectedMedicine,
                   quantity, itemCounter, discount, paymentMode, submitting,
                   submitMessage, invoicePost, refreshing>>
    /\ PaymentModeEffect(cashAmount, upiAmount)

SetDiscount(d) ==
    /\ onPharmacy
    /\ discount' = d
    /\ toast' = NoToast
    /\ UNCHANGED <<authVars, opVars, returnsVars, inventoryVars, priceVars, paymentsVars, activeItem, patients, loadingPatients, patientName, phoneNo,
                   isNewPatient, medicines, loadingMedicines, selectedMedicine,
                   quantity, billItems, itemCounter, paymentMode, submitting,
                   submitMessage, invoicePost, refreshing>>
    /\ PaymentModeEffect(cashAmount, upiAmount)

SetPaymentMode(m) ==
    /\ onPharmacy
    /\ paymentMode' = m
    /\ toast' = NoToast
    /\ UNCHANGED <<authVars, opVars, returnsVars, inventoryVars, priceVars, paymentsVars, activeItem, patients, loadingPatients, patientName, phoneNo,
                   isNewPatient, medicines, loadingMedicines, selectedMedicine,
                   quantity, billItems, itemCounter, discount, submitting,
                   submitMessage, invoicePost, refreshing>>
    /\ PaymentModeEffect(cashAmount, upiAmount)

\* the cash and UPI boxes are rendered in mode Both only
SetCashAmount(c) ==
    /\ onPharmacy /\ paymentMode = "Both"
    /\ cashAmount' = c
    /\ toast' = NoToast
    /\ UNCHANGED <<authVars, opVars, returnsVars, inventoryVars, priceVars, paymentsVars, activeItem, patients, loadingPatients, patientName, phoneNo,
                   isNewPatient, medicines, loadingMedicines, selectedMedicine,
                   quantity, billItems, itemCounter, discount, paymentMode,
                   upiAmount, submitting, submitMessage, invoicePost, refreshing>>

SetUpiAmount(u) ==
    /\ onPharmacy /\ paymentMode = "Both"
    /\ upiAmount' = u
    /\ toast' = NoToast
    /\ UNCHANGED <<authVars, opVars, returnsVars, inventoryVars, priceVars, paymentsVars, activeItem, patients, loadingPatients, patientName, phoneNo,
                   isNewPatient, medicines, loadingMedicines, selectedMedicine,
                   quantity, billItems, itemCounter, discount, paymentMode,
                   cashAmount, submitting, submitMessage, invoicePost, refreshing>>

\* what handleClearForm sets (the payment effect then finds paymentMode '')
ClearFormUpdates ==
    /\ patientName' = "" /\ phoneNo' = "" /\ isNewPatient' = FALSE
    /\ billItems' = <<>>
    /\ discount' = <<>>
    /\ paymentMode' = ""
    /\ selectedMedicine' = "" /\ quantity' = <<>>
    /\ PaymentModeEffect(<<>>, <<>>)

\* the Clear button
HandleClearForm ==
    /\ onPharmacy
    /\ ClearFormUpdates
    /\ toast' = NoToast
    /\ UNCHANGED <<authVars, opVars, returnsVars, inventoryVars, priceVars, paymentsVars, activeItem, patients, loadingPatients, medicines,
                   loadingMedicines, itemCounter, submitting, submitMessage,
                   invoicePost, refreshing>>

\* /^\d{10}$/.test(phoneNo), phoneNo holding digits only
ValidPhone(p) == Len(p) = 10

\* the reconciliation test of mode Both
\* mutant of SplitMismatch: no tolerance
SplitMismatch_Exact(cash, upi, final) == cash + upi # final

SplitMismatch(cash, upi, final) == Abs(cash + upi - final) > Cent

\* invoiceData as handleSubmit builds it
\* mutant of InvoiceData: the lines sent newest first
InvoiceData_NewestFirst ==
    [ patient_name |-> patientName,
      phone_no |-> phoneNo,
      medicines |-> [ i \in 1..Len(billItems) |->
                        [ medicine |-> billItems[Len(billItems) + 1 - i].name,
                          quantity |-> billItems[Len(billItems) + 1 - i].qty,
                          price |-> billItems[Len(billItems) + 1 - i].price ] ],
      discount |-> discountValue,
      payment_mode |-> paymentMode,
      cash_amount |-> IF paymentMode = "Cash" THEN finalAmount
                      ELSE IF paymentMode = "Both" THEN parseFloatOr0(cashAmount)
                      ELSE 0,
      upi_amount |-> IF paymentMode = "UPI" THEN finalAmount
                     ELSE IF paymentMode = "Both" THEN parseFloatOr0(upiAmount)
                     ELSE 0 ]

InvoiceData ==
    [ patient_name |-> patientName,
      phone_no |-> phoneNo,
      medicines |-> [ i \in 1..Len(billItems) |->
                        [ medicine |-> billItems[i].name,
                          quantity |-> billItems[i].qty,
                          price |-> billItems[i].price ] ],
      discount |-> discountValue,
      payment_mode |-> paymentMode,
      cash_amount |-> IF paymentMode = "Cash" THEN finalAmount
                      ELSE IF paymentMode = "Both" THEN parseFloatOr0(cashAmount)
                      ELSE 0,
      upi_amount |-> IF paymentMode = "UPI" THEN finalAmount
                     ELSE IF paymentMode = "Both" THEN parseFloatOr0(upiAmount)
                     ELSE 0 ]

\* mutant of SubmitRejection: the payment-mode check and the split check dropped
SubmitRejection_NoPaymentChecks ==
    IF patientName = ""
    THEN Toast("warning", "Please enter patient name")
    ELSE IF Len(billItems) = 0
    THEN Toast("warning", "Please add at least one medicine to the prescription")
    ELSE NoToast

\* the validation of handleSubmit: the toast of the first check that fails,
\* NoToast when the draft passes (patientName never holds blanks only: the one
\* handler that sets it stores '' for a blank value)
SubmitRejection ==
    IF patientName = ""
    THEN Toast("warning", "Please enter patient name")
    ELSE IF Len(billItems) = 0
    THEN Toast("warning", "Please add at least one medicine to the prescription")
    ELSE IF paymentMode = ""
    THEN Toast("warning", "Please select a payment mode")
    ELSE IF isNewPatient /\ phoneNo # "" /\ ~ValidPhone(phoneNo)
    THEN Toast("warning", "Please enter a valid 10-digit phone number or leave it blank")
    ELSE IF /\ paymentMode = "Both"
            /\ SplitMismatch(parseFloatOr0(cashAmount), parseFloatOr0(upiAmount),
                             finalAmount)
    THEN Toast("error", "Cash + UPI must equal total")
    ELSE NoToast

\* "Submit Prescription" is enabled when no submission runs and there are lines
\* mutant of SubmitEnabled: the button stays enabled during a submission
SubmitEnabled_WhileSubmitting == billItems # <<>>

SubmitEnabled == ~submitting /\ billItems # <<>>

HandleSubmit ==
    /\ onPharmacy
    /\ SubmitEnabled
    /\ UNCHANGED <<authVars, opVars, returnsVars, inventoryVars, priceVars, paymentsVars, activeItem, patients, loadingPatients, patientName,
                   phoneNo, isNewPatient, medicines, loadingMedicines,
                   selectedMedicine, quantity, billItems, itemCounter, discount,
                   paymentMode, cashAmount, upiAmount, refreshing>>
    /\ IF SubmitRejection # NoToast
       THEN /\ toast' = SubmitRejection
            /\ UNCHANGED <<submitting, submitMessage, invoicePost>>
       ELSE /\ submitting' = TRUE
            /\ submitMessage' = NoMessage
            /\ invoicePost' = << InvoiceData >>
            /\ toast' = NoToast

\* the POST settles: success, a body with success = false, or a rejected promise
InvoiceOutcomes == { "success", "success_false", "error" }

\* mutant of InvoiceResponse: a body with success = false passes in silence
InvoiceResponse_SilentFalse(outcome) ==
    /\ onPharmacy
    /\ invoicePost # <<>>
    /\ invoicePost' = <<>>
    /\ toast' = NoToast
    /\ UNCHANGED <<authVars, opVars, returnsVars, inventoryVars, priceVars, paymentsVars, activeItem, patients, loadingPatients, medicines,
                   loadingMedicines, itemCounter>>
    /\ IF outcome = "success"
       THEN /\ submitMessage' = [type |-> "success"]
            /\ ClearFormUpdates
            /\ refreshing' = TRUE
            /\ UNCHANGED submitting
       ELSE /\ submitMessage' = (IF outcome = "error" THEN [type |-> "error"]
                                 ELSE submitMessage)
            /\ submitting' = FALSE
            /\ UNCHANGED <<patientName, phoneNo, isNewPatient, selectedMedicine,
                           quantity, billItems, discount, paymentMode,
                           cashAmount, upiAmount, refreshing>>

InvoiceResponse(outcome) ==
    /\ onPharmacy
    /\ invoicePost # <<>>
    /\ invoicePost' = <<>>
    /\ toast' = NoToast
    /\ UNCHANGED <<authVars, opVars, returnsVars, inventoryVars, priceVars, paymentsVars, activeItem, patients, loadingPatients, medicines,
                   loadingMedicines, itemCounter>>
    /\ IF outcome = "success"
       THEN /\ submitMessage' = [type |-> "success"]
            /\ ClearFormUpdates
            /\ refreshing' = TRUE
            /\ UNCHANGED submitting
       ELSE /\ submitMessage' = [type |-> "error"]
            /\ submitting' = FALSE
            /\ UNCHANGED <<patientName, phoneNo, isNewPatient, selectedMedicine,
                           quantity, billItems, discount, paymentMode,
                           cashAmount, upiAmount, refreshing>>

\* the refresh of today's patients settles (data: the list now shown), then
\* finally: setSubmitting(false)
RefreshPatientsDone(data) ==
    /\ onPharmacy
    /\ refreshing
    /\ refreshing' = FALSE
    /\ patients' = data
    /\ submitting' = FALSE
    /\ toast' = NoToast
    /\ UNCHANGED <<authVars, opVars, returnsVars, inventoryVars, priceVars, paymentsVars, activeItem, loadingPatients, patientName, phoneNo,
                   isNewPatient, medicines, loadingMedicines, selectedMedicine,
                   quantity, billItems, itemCounter, discount, paymentMode,
                   cashAmount, upiAmount, submitMessage, invoicePost>>

----------------------------------------------------------------------------
(* Inventory: purchase entry *)

\* new Date().toISOString().split('T')[0] when the page mounts
Today == "2025-01-15"

\* GET /inventory/api/medicines, success: the names
InventoryNames == << "Paracetamol", "Amoxicillin" >>

\* GET /inventory/api/medicine/<name>, success: MRP and PTR, <<>> standing for null
InventoryDetails(name) ==
    IF name = "Paracetamol"
    THEN [MName |-> name, MRP |-> <<10000>>, PTR |-> <<8000>>]
    ELSE [MName |-> name, MRP |-> <<>>, PTR |-> <<>>]

Message(type, text) == [type |-> type, text |-> text]
NullMessage == [type |-> "none", text |-> ""]

InventoryInit ==
    /\ invBillDate = Today /\ invBillNo = ""
    /\ invDeliveryDate = Today /\ invAgency = ""
    /\ invBillAmount = <<>> /\ invTaxAmount = <<>>
    /\ invDiscountInBill = "No" /\ invDiscountAmount = <<>>
    /\ invMedicines = <<>> /\ invLoadingMedicines = TRUE
    /\ invSelectedMedicine = "" /\ invMedicineDetails = <<>>
    /\ invQuantity = <<>> /\ invPurchasePrice = <<>>
    /\ invItems = <<>> /\ invItemCounter = 0
    /\ invIsSubmitting = FALSE /\ invMessage = NullMessage
    /\ billPost = <<>> /\ detailsGets = {}
    /\ showUpdatePriceModal = FALSE /\ updateMedicineName = ""
    /\ currentPriceDetails = <<>> /\ newMRP = <<>>
    /\ showPriceUpdateConfirm = FALSE /\ updatingPrice = FALSE
    /\ updatePricePost = <<>> /\ priceDetailsGets = {}
    /\ priceErrorLogged = FALSE /\ loadingPriceDetails = FALSE

InventoryMount ==
    /\ invBillDate' = Today /\ invBillNo' = ""
    /\ invDeliveryDate' = Today /\ invAgency' = ""
    /\ invBillAmount' = <<>> /\ invTaxAmount' = <<>>
    /\ invDiscountInBill' = "No" /\ invDiscountAmount' = <<>>
    /\ invMedicines' = <<>> /\ invLoadingMedicines' = TRUE
    /\ invSelectedMedicine' = "" /\ invMedicineDetails' = <<>>
    /\ invQuantity' = <<>> /\ invPurchasePrice' = <<>>
    /\ invItems' = <<>> /\ invItemCounter' = 0
    /\ invIsSubmitting' = FALSE /\ invMessage' = NullMessage
    /\ billPost' = <<>> /\ detailsGets' = {}
    /\ showUpdatePriceModal' = FALSE /\ updateMedicineName' = ""
    /\ currentPriceDetails' = <<>> /\ newMRP' = <<>>
    /\ showPriceUpdateConfirm' = FALSE /\ updatingPrice' = FALSE
    /\ updatePricePost' = <<>> /\ priceDetailsGets' = {}
    /\ priceErrorLogged' = FALSE /\ loadingPriceDetails' = FALSE

onInventory == mainAppMounted /\ activeItem = "Inventory"

\* the bill header fields and the item entry boxes
invHeaderVars == <<invBillDate, invBillNo, invDeliveryDate, invAgency,
                   invBillAmount, invTaxAmount, invDiscountInBill, invDiscountAmount>>
invEntryVars == <<invSelectedMedicine, invMedicineDetails, invQuantity, invPurchasePrice>>

\* Calculate totals (recomputed on every render)
calculatedBillAmount == parseFloatOr0(invBillAmount)
calculatedTaxAmount == parseFloatOr0(invTaxAmount)
\* mutant of calculatedDiscountAmount: the Yes/No switch ignored
calculatedDiscountAmount_IgnoresSwitch == parseFloatOr0(invDiscountAmount)

calculatedDiscountAmount ==
    IF invDiscountInBill = "Yes" THEN parseFloatOr0(invDiscountAmount) ELSE 0
billTotal == calculatedBillAmount + calculatedTaxAmount - calculatedDiscountAmount

\* fetchMedicines settles: data is the list of names on success, [] on failure
InvFetchMedicinesDone(data) ==
    /\ onInventory /\ invLoadingMedicines
    /\ invMedicines' = data
    /\ invLoadingMedicines' = FALSE
    /\ toast' = NoToast
    /\ UNCHANGED <<authVars, opVars, returnsVars, pharmacyVars, priceVars, paymentsVars, activeItem, invHeaderVars, invEntryVars, invItems,
                   invItemCounter, invIsSubmitting, invMessage, billPost, detailsGets>>

SetBillDate(d) ==
    /\ onInventory
    /\ invBillDate' = d
    /\ toast' = NoToast
    /\ UNCHANGED <<authVars, opVars, returnsVars, pharmacyVars, priceVars, paymentsVars, activeItem, invBillNo, invDeliveryDate, invAgency,
                   invBillAmount, invTaxAmount, invDiscountInBill, invDiscountAmount,
                   invMedicines, invLoadingMedicines, invEntryVars, invItems,
                   invItemCounter, invIsSubmitting, invMessage, billPost, detailsGets>>

SetBillNo(n) ==
    /\ onInventory
    /\ invBillNo' = n
    /\ toast' = NoToast
    /\ UNCHANGED <<authVars, opVars, returnsVars, pharmacyVars, priceVars, paymentsVars, activeItem, invBillDate, invDeliveryDate, invAgency,
                   invBillAmount, invTaxAmount, invDiscountInBill, invDiscountAmount,
                   invMedicines, invLoadingMedicines, invEntryVars, invItems,
                   invItemCounter, invIsSubmitting, invMessage, billPost, detailsGets>>

SetDeliveryDate(d) ==
    /\ onInventory
    /\ invDeliveryDate' = d
    /\ toast' = NoToast
    /\ UNCHANGED <<authVars, opVars, returnsVars, pharmacyVars, priceVars, paymentsVars, activeItem, invBillDate, invBillNo, invAgency,
                   invBillAmount, invTaxAmount, invDiscountInBill, invDiscountAmount,
                   invMedicines, invLoadingMedicines, invEntryVars, invItems,
                   invItemCounter, invIsSubmitting, invMessage, billPost, detailsGets>>

SetAgency(a) ==
    /\ onInventory
    /\ invAgency' = a
    /\ toast' = NoToast
    /\ UNCHANGED <<authVars, opVars, returnsVars, pharmacyVars, priceVars, paymentsVars, activeItem, invBillDate, invBillNo, invDeliveryDate,
                   invBillAmount, invTaxAmount, invDiscountInBill, invDiscountAmount,
                   invMedicines, invLoadingMedicines, invEntryVars, invItems,
                   invItemCounter, invIsSubmitting, invMessage, billPost, detailsGets>>

\* "Total Bill Value" under the header amounts: billTotal.toFixed(2)
TotalBillValue == toFixed2(billTotal)

\* the amounts typed into the header's number boxes
HeaderAmountInputs == { <<>>, <<5000>> }

SetBillAmount(t) ==
    /\ onInventory
    /\ invBillAmount' = t
    /\ toast' = NoToast
    /\ UNCHANGED <<authVars, opVars, returnsVars, pharmacyVars, priceVars, paymentsVars, activeItem, invBillDate, invBillNo, invDeliveryDate, invAgency,
                   invTaxAmount, invDiscountInBill, invDiscountAmount,
                   invMedicines, invLoadingMedicines, invEntryVars, invItems,
                   invItemCounter, invIsSubmitting, invMessage, billPost, detailsGets>>

SetTaxAmount(t) ==
    /\ onInventory
    /\ invTaxAmount' = t
    /\ toast' = NoToast
    /\ UNCHANGED <<authVars, opVars, returnsVars, pharmacyVars, priceVars, paymentsVars, activeItem, invBillDate, invBillNo, invDeliveryDate, invAgency,
                   invBillAmount, invDiscountInBill, invDiscountAmount,
                   invMedicines, invLoadingMedicines, invEntryVars, invItems,
                   invItemCounter, invIsSubmitting, invMessage, billPost, detailsGets>>

\* the "Discount in Bill?" select offers No and Yes
SetDiscountInBill(v) ==
    /\ onInventory
    /\ invDiscountInBill' = v
    /\ toast' = NoToast
    /\ UNCHANGED <<authVars, opVars, returnsVars, pharmacyVars, priceVars, paymentsVars, activeItem, invBillDate, invBillNo, invDeliveryDate, invAgency,
                   invBillAmount, invTaxAmount, invDiscountAmount,
                   invMedicines, invLoadingMedicines, invEntryVars, invItems,
                   invItemCounter, invIsSubmitting, invMessage, billPost, detailsGets>>

\* the "Discount Amount" box is rendered only while the switch says Yes
SetDiscountAmount(t) ==
    /\ onInventory /\ invDiscountInBill = "Yes"
    /\ invDiscountAmount' = t
    /\ toast' = NoToast
    /\ UNCHANGED <<authVars, opVars, returnsVars, pharmacyVars, priceVars, paymentsVars, activeItem, invBillDate, invBillNo, invDeliveryDate, invAgency,
                   invBillAmount, invTaxAmount, invDiscountInBill,
                   invMedicines, invLoadingMedicines, invEntryVars, invItems,
                   invItemCounter, invIsSubmitting, invMessage, billPost, detailsGets>>

\* Inventory.handleMedicineSelect up to its await: the select offers the loaded names
InvHandleMedicineSelect(name) ==
    /\ onInventory /\ ~invLoadingMedicines
    /\ name = "" \/ \E i \in 1..Len(invMedicines) : invMedicines[i] = name
    /\ invSelectedMedicine' = name
    /\ invMedicineDetails' = <<>>
    /\ detailsGets' = IF name = "" THEN detailsGets ELSE detailsGets \cup {name}
    /\ toast' = NoToast
    /\ UNCHANGED <<authVars, opVars, returnsVars, pharmacyVars, priceVars, paymentsVars, activeItem, invHeaderVars, invMedicines,
                   invLoadingMedicines, invQuantity, invPurchasePrice, invItems,
                   invItemCounter, invIsSubmitting, invMessage, billPost>>

\* Inventory.handleMedicineSelect after its await: the GET for name settles
MedicineDetailsResponse(name, ok) ==
    /\ onInventory
    /\ name \in detailsGets
    /\ detailsGets' = detailsGets \ {name}
    /\ IF ok
       THEN /\ invMedicineDetails' = << InventoryDetails(name) >>
            /\ invPurchasePrice' =
                   IF InventoryDetails(name).PTR # <<>> /\ InventoryDetails(name).PTR[1] # 0
                   THEN InventoryDetails(name).PTR
                   ELSE invPurchasePrice
       ELSE UNCHANGED <<invMedicineDetails, invPurchasePrice>>
    /\ toast' = NoToast
    /\ UNCHANGED <<authVars, opVars, returnsVars, pharmacyVars, priceVars, paymentsVars, activeItem, invHeaderVars, invMedicines,
                   invLoadingMedicines, invSelectedMedicine, invQuantity, invItems,
                   invItemCounter, invIsSubmitting, invMessage, billPost>>

InvSetQuantity(q) ==
    /\ onInventory
    /\ invQuantity' = q
    /\ toast' = NoToast
    /\ UNCHANGED <<authVars, opVars, returnsVars, pharmacyVars, priceVars, paymentsVars, activeItem, invHeaderVars, invMedicines,
                   invLoadingMedicines, invSelectedMedicine, invMedicineDetails,
                   invPurchasePrice, invItems, invItemCounter, invIsSubmitting,
                   invMessage, billPost, detailsGets>>

SetPurchasePrice(t) ==
    /\ onInventory
    /\ invPurchasePrice' = t
    /\ toast' = NoToast
    /\ UNCHANGED <<authVars, opVars, returnsVars, pharmacyVars, priceVars, paymentsVars, activeItem, invHeaderVars, invMedicines,
                   invLoadingMedicines, invSelectedMedicine, invMedicineDetails,
                   invQuantity, invItems, invItemCounter, invIsSubmitting,
                   invMessage, billPost, detailsGets>>

\* medicineDetails?.MRP || 0
CatalogMrpOr0(details) ==
    IF details = <<>> \/ details[1].MRP = <<>> THEN 0 ELSE details[1].MRP[1]

\* the quantity test of handleAddItem: !quantity || parseInt(quantity) <= 0
\* (NaN <= 0 is false)
InvQuantityRejected(text) ==
    text = <<>> \/ (~isNaN(parseInt(text)) /\ parseInt(text)[1] <= 0)

\* mutant of NewPurchaseItem: the difference taken the other way round
NewPurchaseItem_PriceMinusMrp ==
    [ id |-> invItemCounter + 1,
      item_name |-> invSelectedMedicine,
      quantity |-> parseInt(invQuantity),
      price |-> parseFloatOr0(invPurchasePrice),
      difference |-> parseFloatOr0(invPurchasePrice) - CatalogMrpOr0(invMedicineDetails) ]

\* the line handleAddItem builds; its quantity is parseInt(quantity), a number or NaN
NewPurchaseItem ==
    [ id |-> invItemCounter + 1,
      item_name |-> invSelectedMedicine,
      quantity |-> parseInt(invQuantity),
      price |-> parseFloatOr0(invPurchasePrice),
      difference |-> CatalogMrpOr0(invMedicineDetails) - parseFloatOr0(invPurchasePrice) ]

\* "Add Item to List" is enabled when a medicine is selected and the quantity box is not empty
HandleAddItem ==
    /\ onInventory
    /\ invSelectedMedicine # "" /\ invQuantity # <<>>
    /\ invItemCounter < MaxItems
    /\ toast' = NoToast
    /\ UNCHANGED <<authVars, opVars, returnsVars, pharmacyVars, priceVars, paymentsVars, activeItem, invHeaderVars, invMedicines,
                   invLoadingMedicines, invIsSubmitting, billPost, detailsGets>>
    /\ LET reject(text) ==
               /\ invMessage' = Message("error", text)
               /\ UNCHANGED <<invEntryVars, invItems, invItemCounter>>
       IN  IF invSelectedMedicine = ""
           THEN reject("Please select a medicine")
           ELSE IF InvQuantityRejected(invQuantity)
           THEN reject("Please enter a valid quantity")
           ELSE /\ invItems' = Append(invItems, NewPurchaseItem)
                /\ invItemCounter' = invItemCounter + 1
                /\ invSelectedMedicine' = ""
                /\ invMedicineDetails' = <<>>
                /\ invQuantity' = <<>>
                /\ invPurchasePrice' = <<>>
                /\ invMessage' = NullMessage

\* the trash button of a row
HandleRemoveItem(id) ==
    /\ onInventory
    /\ \E i \in 1..Len(invItems) : invItems[i].id = id
    /\ invItems' = FilterOutId(invItems, id)
    /\ toast' = NoToast
    /\ UNCHANGED <<authVars, opVars, returnsVars, pharmacyVars, priceVars, paymentsVars, activeItem, invHeaderVars, invMedicines,
                   invLoadingMedicines, invEntryVars, invItemCounter,
                   invIsSubmitting, invMessage, billPost, detailsGets>>

\* billData as handleSubmitBill builds it
BillData ==
    [ BillDate |-> invBillDate,
      BillNo |-> invBillNo,
      DeliveryDate |-> invDeliveryDate,
      Agency |-> invAgency,
      BillAmount |-> calculatedBillAmount,
      TaxAmount |-> calculatedTaxAmount,
      DiscountInBill |-> invDiscountInBill,
      Disc_amount |-> calculatedDiscountAmount,
      BillTotal |-> billTotal,
      items |-> [ i \in 1..Len(invItems) |->
                    [ item_name |-> invItems[i].item_name,
                      quantity |-> invItems[i].quantity,
                      price |-> invItems[i].price,
                      difference |-> invItems[i].difference ] ] ]

\* the validation of handleSubmitBill: the message of the first check that
\* fails, NullMessage when the bill passes
BillRejection ==
    IF invBillDate = ""
    THEN Message("error", "Bill date is required")
    ELSE IF invBillNo = ""
    THEN Message("error", "Bill number is required")
    ELSE IF invDeliveryDate = ""
    THEN Message("error", "Delivery date is required")
    ELSE IF invAgency = ""
    THEN Message("error", "Agency/Supplier is required")
    ELSE IF Len(invItems) = 0
    THEN Message("error", "Please add at least one item")
    ELSE NullMessage

\* "Save Bill" is enabled when no submission runs
HandleSubmitBill ==
    /\ onInventory
    /\ ~invIsSubmitting
    /\ toast' = NoToast
    /\ UNCHANGED <<authVars, opVars, returnsVars, pharmacyVars, priceVars, paymentsVars, activeItem, invHeaderVars, invMedicines,
                   invLoadingMedicines, invEntryVars, invItems, invItemCounter,
                   detailsGets>>
    /\ IF BillRejection # NullMessage
       THEN /\ invMessage' = BillRejection
            /\ UNCHANGED <<invIsSubmitting, billPost>>
       ELSE /\ invIsSubmitting' = TRUE
            /\ invMessage' = NullMessage
            /\ billPost' = << BillData >>

\* the POST settles: success clears the form (Inventory.handleClearForm), a body
\* with success = false sets nothing, a rejected promise sets the error message
BillResponse(outcome) ==
    /\ onInventory
    /\ billPost # <<>>
    /\ billPost' = <<>>
    /\ invIsSubmitting' = FALSE
    /\ toast' = NoToast
    /\ UNCHANGED <<authVars, opVars, returnsVars, pharmacyVars, priceVars, paymentsVars, activeItem, invBillDate, invDeliveryDate, invAgency,
                   invMedicines, invLoadingMedicines, invItemCounter, detailsGets>>
    /\ IF outcome = "success"
       THEN /\ invMessage' = Message("success", "Bill saved successfully")
            /\ invBillNo' = ""
            /\ invBillAmount' = <<>> /\ invTaxAmount' = <<>>
            /\ invDiscountInBill' = "No" /\ invDiscountAmount' = <<>>
            /\ invItems' = <<>>
            /\ invSelectedMedicine' = "" /\ invMedicineDetails' = <<>>
            /\ invQuantity' = <<>> /\ invPurchasePrice' = <<>>
       ELSE /\ invMessage' = IF outcome = "error"
                             THEN Message("error", "Failed to save bill")
                             ELSE invMessage
            /\ UNCHANGED <<invBillNo, invBillAmount, invTaxAmount, invDiscountInBill,
                           invDiscountAmount, invItems, invEntryVars>>

----------------------------------------------------------------------------
(* Inventory: update-price modal *)

\* texts typed into the New MRP box: '', 0, 12.00
NewMrpInputs == { <<>>, <<0>>, <<12000>> }

\* outcomes of the POST /inventory/update-price: the promise resolves or rejects
PriceUpdateOutcomes == { "resolved", "rejected" }

invFormVars == <<invHeaderVars, invMedicines, invEntryVars, invItems, invItemCounter,
                 invIsSubmitting, billPost, detailsGets>>

\* the "Update Price" button of the page header
OpenUpdatePriceModal ==
    /\ onInventory
    /\ ~showUpdatePriceModal
    /\ showUpdatePriceModal' = TRUE
    /\ updateMedicineName' = ""
    /\ currentPriceDetails' = <<>>
    /\ newMRP' = <<>>
    /\ toast' = NoToast
    /\ UNCHANGED <<authVars, opVars, returnsVars, pharmacyVars, paymentsVars, activeItem, invFormVars,
                   invLoadingMedicines, invMessage, showPriceUpdateConfirm,
                   updatingPrice, loadingPriceDetails, updatePricePost,
                   priceDetailsGets, priceErrorLogged>>

\* the x and the Cancel of the modal
CloseUpdatePriceModal ==
    /\ onInventory
    /\ showUpdatePriceModal /\ ~showPriceUpdateConfirm
    /\ showUpdatePriceModal' = FALSE
    /\ toast' = NoToast
    /\ UNCHANGED <<authVars, opVars, returnsVars, pharmacyVars, paymentsVars, activeItem, invFormVars,
                   invLoadingMedicines, invMessage, updateMedicineName,
                   currentPriceDetails, newMRP, showPriceUpdateConfirm,
                   updatingPrice, loadingPriceDetails, updatePricePost,
                   priceDetailsGets, priceErrorLogged>>

\* handleUpdateMedicineSelect up to its await
HandleUpdateMedicineSelect(name) ==
    /\ onInventory
    /\ showUpdatePriceModal /\ ~showPriceUpdateConfirm
    /\ name = "" \/ \E i \in 1..Len(invMedicines) : invMedicines[i] = name
    /\ updateMedicineName' = name
    /\ currentPriceDetails' = <<>>
    /\ priceDetailsGets' = IF name = "" THEN priceDetailsGets
                           ELSE priceDetailsGets \cup {name}
    /\ loadingPriceDetails' = IF name = "" THEN loadingPriceDetails ELSE TRUE
    /\ toast' = NoToast
    /\ UNCHANGED <<authVars, opVars, returnsVars, pharmacyVars, paymentsVars, activeItem, invFormVars,
                   invLoadingMedicines, invMessage, showUpdatePriceModal, newMRP,
                   showPriceUpdateConfirm, updatingPrice, updatePricePost,
                   priceErrorLogged>>

\* handleUpdateMedicineSelect after its await: the GET for name settles
PriceDetailsResponse(name, ok) ==
    /\ onInventory
    /\ name \in priceDetailsGets
    /\ priceDetailsGets' = priceDetailsGets \ {name}
    /\ loadingPriceDetails' = FALSE
    /\ IF ok
       THEN /\ currentPriceDetails' = << InventoryDetails(name) >>
            /\ newMRP' = InventoryDetails(name).MRP
       ELSE UNCHANGED <<currentPriceDetails, newMRP>>
    /\ toast' = NoToast
    /\ UNCHANGED <<authVars, opVars, returnsVars, pharmacyVars, paymentsVars, activeItem, invFormVars,
                   invLoadingMedicines, invMessage, showUpdatePriceModal,
                   updateMedicineName, showPriceUpdateConfirm, updatingPrice,
                   updatePricePost, priceErrorLogged>>

\* the New MRP box is rendered once the current prices are shown
SetNewMRP(t) ==
    /\ onInventory
    /\ showUpdatePriceModal /\ ~showPriceUpdateConfirm
    /\ currentPriceDetails # <<>> /\ ~loadingPriceDetails
    /\ newMRP' = t
    /\ toast' = NoToast
    /\ UNCHANGED <<authVars, opVars, returnsVars, pharmacyVars, paymentsVars, activeItem, invFormVars,
                   invLoadingMedicines, invMessage, showUpdatePriceModal,
                   updateMedicineName, currentPriceDetails, showPriceUpdateConfirm,
                   updatingPrice, loadingPriceDetails, updatePricePost,
                   priceDetailsGets, priceErrorLogged>>

\* the "Update Price" button of the modal, enabled with current prices shown
\* and no update running
RequestPriceUpdate ==
    /\ onInventory
    /\ showUpdatePriceModal /\ ~showPriceUpdateConfirm
    /\ ~updatingPrice /\ currentPriceDetails # <<>>
    /\ UNCHANGED <<authVars, opVars, returnsVars, pharmacyVars, paymentsVars, activeItem, invFormVars,
                   invLoadingMedicines, invMessage, showUpdatePriceModal,
                   updateMedicineName, currentPriceDetails, newMRP, updatingPrice,
                   loadingPriceDetails, updatePricePost, priceDetailsGets,
                   priceErrorLogged>>
    /\ IF updateMedicineName = ""
       THEN /\ toast' = Toast("warning", "Please select a medicine")
            /\ UNCHANGED showPriceUpdateConfirm
       ELSE IF newMRP = <<>> \/ newMRP[1] <= 0
       THEN /\ toast' = Toast("warning", "Please enter a valid new MRP")
            /\ UNCHANGED showPriceUpdateConfirm
       ELSE /\ toast' = NoToast
            /\ showPriceUpdateConfirm' = TRUE

\* Cancel of the confirmation dialog
CancelPriceUpdate ==
    /\ onInventory
    /\ showPriceUpdateConfirm
    /\ showPriceUpdateConfirm' = FALSE
    /\ toast' = NoToast
    /\ UNCHANGED <<authVars, opVars, returnsVars, pharmacyVars, paymentsVars, activeItem, invFormVars,
                   invLoadingMedicines, invMessage, showUpdatePriceModal,
                   updateMedicineName, currentPriceDetails, newMRP, updatingPrice,
                   loadingPriceDetails, updatePricePost, priceDetailsGets,
                   priceErrorLogged>>

\* handleUpdatePrice up to its await
HandleUpdatePrice ==
    /\ onInventory
    /\ showPriceUpdateConfirm /\ ~updatingPrice
    /\ showPriceUpdateConfirm' = FALSE
    /\ updatingPrice' = TRUE
    /\ updatePricePost' = << [ medicine_name |-> updateMedicineName,
                               new_mrp |-> newMRP,
                               old_mrp |-> IF currentPriceDetails = <<>> THEN <<>>
                                           ELSE currentPriceDetails[1].MRP ] >>
    /\ toast' = NoToast
    /\ UNCHANGED <<authVars, opVars, returnsVars, pharmacyVars, paymentsVars, activeItem, invFormVars,
                   invLoadingMedicines, invMessage, showUpdatePriceModal,
                   updateMedicineName, currentPriceDetails, newMRP,
                   loadingPriceDetails, priceDetailsGets, priceErrorLogged>>

\* mutant of PriceUpdateResponse: a rejected request reported as an error, the
\* modal left open
PriceUpdateResponse_ReportsFailure(outcome) ==
    /\ onInventory
    /\ updatePricePost # <<>>
    /\ updatePricePost' = <<>>
    /\ updatingPrice' = FALSE
    /\ priceErrorLogged' = (priceErrorLogged \/ outcome = "rejected")
    /\ toast' = NoToast
    /\ UNCHANGED <<authVars, opVars, returnsVars, pharmacyVars, paymentsVars, activeItem, invFormVars,
                   updateMedicineName, currentPriceDetails, newMRP,
                   showPriceUpdateConfirm, loadingPriceDetails, priceDetailsGets>>
    /\ IF outcome = "resolved"
       THEN /\ invMessage' = Message("success", "Price updated")
            /\ showUpdatePriceModal' = FALSE
            /\ invLoadingMedicines' = TRUE
       ELSE /\ invMessage' = Message("error", "Failed to update price")
            /\ UNCHANGED <<showUpdatePriceModal, invLoadingMedicines>>

\* handleUpdatePrice after its await: the try and the catch set the same
\* message, close the modal and call fetchMedicines (a list fetch already in
\* flight and this one are not told apart: invLoadingMedicines stands for both)
PriceUpdateResponse(outcome) ==
    /\ onInventory
    /\ updatePricePost # <<>>
    /\ updatePricePost' = <<>>
    /\ updatingPrice' = FALSE
    /\ priceErrorLogged' = (priceErrorLogged \/ outcome = "rejected")
    /\ invMessage' = Message("success", "Price updated")
    /\ showUpdatePriceModal' = FALSE
    /\ invLoadingMedicines' = TRUE
    /\ toast' = NoToast
    /\ UNCHANGED <<authVars, opVars, returnsVars, pharmacyVars, paymentsVars, activeItem, invFormVars,
                   updateMedicineName, currentPriceDetails, newMRP,
                   showPriceUpdateConfirm, loadingPriceDetails, priceDetailsGets>>

----------------------------------------------------------------------------
(* Payments: supplier bills *)

\* the page mounts with its first GET of the bills in flight
PaymentsInit ==
    /\ payBills = <<>> /\ payLoading = TRUE /\ payBillsGets = 1
    /\ paymentModal = <<>> /\ payMode = "" /\ payAmountPaid = <<>>
    /\ payIsProcessing = FALSE /\ payMessage = NullMessage
    /\ markPaidPost = <<>>

PaymentsMount ==
    /\ payBills' = <<>> /\ payLoading' = TRUE /\ payBillsGets' = 1
    /\ paymentModal' = <<>> /\ payMode' = "" /\ payAmountPaid' = <<>>
    /\ payIsProcessing' = FALSE /\ payMessage' = NullMessage
    /\ markPaidPost' = <<>>

onPayments == mainAppMounted /\ activeItem = "Payments"

payModalVars == <<paymentModal, payMode, payAmountPaid>>

\* Refresh / Search (the open modal covers both buttons)
FetchBills ==
    /\ onPayments
    /\ paymentModal = <<>>
    /\ payBillsGets < MaxFetches
    /\ payLoading' = TRUE
    /\ payBillsGets' = payBillsGets + 1
    /\ toast' = NoToast
    /\ UNCHANGED <<authVars, opVars, returnsVars, pharmacyVars, inventoryVars, priceVars, activeItem, payBills,
                   payModalVars, payIsProcessing, payMessage, markPaidPost>>

\* outcomes of a GET of the bills: a list, a body with success = false, a
\* rejected request, a rejected request with status 403 ("unauthorized", status
\* 401, is a further outcome, drawn where the session is modelled)
FetchOutcomes == { "success", "success_false", "error", "denied" }

\* a GET of the bills settles
FetchBillsDone(outcome, data) ==
    /\ onPayments
    /\ payBillsGets > 0
    /\ payBillsGets' = payBillsGets - 1
    /\ payLoading' = FALSE
    /\ payBills' = IF outcome = "success" THEN data
                   ELSE IF outcome = "success_false" THEN payBills
                   ELSE <<>>
    /\ payMessage' = IF outcome = "denied"
                     THEN Message("error", "Access denied")
                     ELSE payMessage
    /\ toast' = NoToast
    /\ ResponseInterceptor(outcome = "unauthorized")
    /\ UNCHANGED <<opVars, returnsVars, pharmacyVars, inventoryVars, priceVars, activeItem,
                   payModalVars, payIsProcessing, markPaidPost>>

\* mutant of OpenPaymentModal: Pay rendered in every row
OpenPaymentModal_EveryRow(i) ==
    /\ onPayments
    /\ ~payLoading /\ paymentModal = <<>>
    /\ i \in 1..Len(payBills)
    /\ paymentModal' = << payBills[i] >>
    /\ payAmountPaid' = << payBills[i].BillTotal >>
    /\ payMode' = ""
    /\ toast' = NoToast
    /\ UNCHANGED <<authVars, opVars, returnsVars, pharmacyVars, inventoryVars, priceVars, activeItem, payBills,
                   payLoading, payBillsGets, payIsProcessing, payMessage,
                   markPaidPost>>

\* Pay is rendered in the row of a bill whose status is not 'paid', once the
\* table is shown
OpenPaymentModal(i) ==
    /\ onPayments
    /\ ~payLoading /\ paymentModal = <<>>
    /\ i \in 1..Len(payBills)
    /\ payBills[i].BillPaymentStatus # "paid"
    /\ paymentModal' = << payBills[i] >>
    /\ payAmountPaid' = << payBills[i].BillTotal >>
    /\ payMode' = ""
    /\ toast' = NoToast
    /\ UNCHANGED <<authVars, opVars, returnsVars, pharmacyVars, inventoryVars, priceVars, activeItem, payBills,
                   payLoading, payBillsGets, payIsProcessing, payMessage,
                   markPaidPost>>

ClosePaymentModalUpdates ==
    /\ paymentModal' = <<>>
    /\ payMode' = ""
    /\ payAmountPaid' = <<>>

\* Cancel
ClosePaymentModal ==
    /\ onPayments
    /\ paymentModal # <<>>
    /\ ClosePaymentModalUpdates
    /\ toast' = NoToast
    /\ UNCHANGED <<authVars, opVars, returnsVars, pharmacyVars, inventoryVars, priceVars, activeItem, payBills,
                   payLoading, payBillsGets, payIsProcessing, payMessage,
                   markPaidPost>>

SetPayMode(m) ==
    /\ onPayments
    /\ paymentModal # <<>>
    /\ payMode' = m
    /\ toast' = NoToast
    /\ UNCHANGED <<authVars, opVars, returnsVars, pharmacyVars, inventoryVars, priceVars, activeItem, payBills,
                   payLoading, payBillsGets, paymentModal, payAmountPaid,
                   payIsProcessing, payMessage, markPaidPost>>

SetAmountPaid(t) ==
    /\ onPayments
    /\ paymentModal # <<>>
    /\ payAmountPaid' = t
    /\ toast' = NoToast
    /\ UNCHANGED <<authVars, opVars, returnsVars, pharmacyVars, inventoryVars, priceVars, activeItem, payBills,
                   payLoading, payBillsGets, paymentModal, payMode,
                   payIsProcessing, payMessage, markPaidPost>>

\* parseFloat(amountPaid) || paymentModal.bill.BillTotal
AmountPaidOf(text, total) ==
    IF parseFloatOr0(text) # 0 THEN parseFloatOr0(text) ELSE total

\* the body of the mark-paid POST, with the bill the handler closed over
MarkPaidRequest ==
    [ bill |-> paymentModal[1],
      payment_mode |-> payMode,
      amount_paid |-> AmountPaidOf(payAmountPaid, paymentModal[1].BillTotal) ]

\* "Confirm Payment" is enabled when no payment is being processed
HandlePayment ==
    /\ onPayments
    /\ paymentModal # <<>> /\ ~payIsProcessing
    /\ toast' = NoToast
    /\ UNCHANGED <<authVars, opVars, returnsVars, pharmacyVars, inventoryVars, priceVars, activeItem, payBills,
                   payLoading, payBillsGets, payModalVars>>
    /\ IF payMode = ""
       THEN /\ payMessage' = Message("error", "Please select a payment mode")
            /\ UNCHANGED <<payIsProcessing, markPaidPost>>
       ELSE /\ payIsProcessing' = TRUE
            /\ markPaidPost' = << MarkPaidRequest >>
            /\ UNCHANGED payMessage

\* mutant of PaymentResponse: every settled request is taken for a payment
PaymentResponse_AlwaysPaid(outcome) ==
    /\ onPayments
    /\ markPaidPost # <<>>
    /\ markPaidPost' = <<>>
    /\ payIsProcessing' = FALSE
    /\ toast' = NoToast
    /\ UNCHANGED <<authVars, opVars, returnsVars, pharmacyVars, inventoryVars, priceVars, activeItem, payBills>>
    /\ payBillsGets < MaxFetches
    /\ payMessage' = Message("success", markPaidPost[1].bill.BillNo)
    /\ ClosePaymentModalUpdates
    /\ payLoading' = TRUE
    /\ payBillsGets' = payBillsGets + 1

\* the POST settles: success closes the modal and fetches the bills again; a
\* body with success = false changes nothing; a rejected request sets an error
PaymentResponse(outcome) ==
    /\ onPayments
    /\ markPaidPost # <<>>
    /\ markPaidPost' = <<>>
    /\ payIsProcessing' = FALSE
    /\ toast' = NoToast
    /\ UNCHANGED <<authVars, opVars, returnsVars, pharmacyVars, inventoryVars, priceVars, activeItem, payBills>>
    /\ IF outcome = "success"
       THEN /\ payBillsGets < MaxFetches
            /\ payMessage' = Message("success", markPaidPost[1].bill.BillNo)
            /\ ClosePaymentModalUpdates
            /\ payLoading' = TRUE
            /\ payBillsGets' = payBillsGets + 1
       ELSE /\ payMessage' = IF outcome = "error"
                             THEN Message("error", "Failed to process payment")
                             ELSE payMessage
            /\ UNCHANGED <<payModalVars, payLoading, payBillsGets>>

\* the x of the message banner
DismissPayMessage ==
    /\ onPayments
    /\ payMessage # NullMessage
    /\ payMessage' = NullMessage
    /\ toast' = NoToast
    /\ UNCHANGED <<authVars, opVars, returnsVars, pharmacyVars, inventoryVars, priceVars, activeItem, payBills,
                   payLoading, payBillsGets, payModalVars, payIsProcessing,
                   markPaidPost>>

----------------------------------------------------------------------------
(* OP: patient registration *)

OPInit ==
    /\ opPatientName = "" /\ opUhid = ""
    /\ uhidTimers = <<>> /\ uhidGets = <<>>

\* a new OP: timeouts and requests of an earlier instance no longer reach it
OPMount ==
    /\ opPatientName' = "" /\ opUhid' = ""
    /\ uhidTimers' = <<>> /\ uhidGets' = <<>>

onOP == mainAppMounted /\ activeItem = "OP"

\* names typed into "Patient Name", keystroke by keystroke
NameInputs == { "", "A", "As", "Ash" }

\* the UHID the backend generates from a name
UhidFor(name) ==
    IF name = "A" THEN "A001"
    ELSE IF name = "As" THEN "AS001"
    ELSE IF name = "Ash" THEN "ASH001"
    ELSE ""

\* the sequence s without its i-th element
RemoveAt(s, i) == SubSeq(s, 1, i - 1) \o SubSeq(s, i + 1, Len(s))

\* handlePatientNameChange: the name is set and a 500 ms timeout is started; the
\* function it returns (clearTimeout) is dropped by the onChange arrow, so no
\* timeout is ever cancelled
HandlePatientNameChange(value) ==
    /\ onOP
    /\ value # opPatientName
    /\ Len(uhidTimers) + Len(uhidGets) < MaxPending
    /\ opPatientName' = value
    /\ uhidTimers' = Append(uhidTimers, value)
    /\ toast' = NoToast
    /\ UNCHANGED <<authVars, returnsVars, pharmacyVars, inventoryVars, priceVars,
                   paymentsVars, activeItem, opUhid, uhidGets>>

\* the oldest timeout expires (equal delays expire in the order they were
\* started): generateUHId(name) up to its await
UhidTimerFires ==
    /\ onOP
    /\ uhidTimers # <<>>
    /\ uhidTimers' = Tail(uhidTimers)
    /\ IF Head(uhidTimers) = ""
       THEN opUhid' = "" /\ UNCHANGED uhidGets
       ELSE uhidGets' = Append(uhidGets, Head(uhidTimers)) /\ UNCHANGED opUhid
    /\ toast' = NoToast
    /\ UNCHANGED <<authVars, returnsVars, pharmacyVars, inventoryVars, priceVars,
                   paymentsVars, activeItem, opPatientName>>

\* generateUHId after its await: requests are answered in any order
GenerateUhidResponse(i, ok) ==
    /\ onOP
    /\ i \in 1..Len(uhidGets)
    /\ uhidGets' = RemoveAt(uhidGets, i)
    /\ opUhid' = IF ok THEN UhidFor(uhidGets[i]) ELSE opUhid
    /\ toast' = NoToast
    /\ UNCHANGED <<authVars, returnsVars, pharmacyVars, inventoryVars, priceVars,
                   paymentsVars, activeItem, opPatientName, uhidTimers>>

\* OP.handleClear (of the fields modelled)
OPHandleClear ==
    /\ onOP
    /\ opUhid' = "" /\ opPatientName' = ""
    /\ toast' = NoToast
    /\ UNCHANGED <<authVars, returnsVars, pharmacyVars, inventoryVars, priceVars,
                   paymentsVars, activeItem, uhidTimers, uhidGets>>

----------------------------------------------------------------------------
(* Returns *)

\* the two returns the list starts with
InitialReturns ==
    << [id |-> 1, medicineName |-> "Paracetamol 500mg", quantity |-> <<5>>,
        reason |-> "Expired", status |-> "pending"],
       [id |-> 2, medicineName |-> "Amoxicillin 250mg", quantity |-> <<10>>,
        reason |-> "Damaged packaging", status |-> "approved"] >>

ReturnsInit ==
    /\ returns = InitialReturns /\ retItemCounter = 2
    /\ retMedicineName = "" /\ retQuantity = <<>> /\ retReason = ""
    /\ retMessage = NullMessage /\ deleteConfirm = <<>>

ReturnsMount ==
    /\ returns' = InitialReturns /\ retItemCounter' = 2
    /\ retMedicineName' = "" /\ retQuantity' = <<>> /\ retReason' = ""
    /\ retMessage' = NullMessage /\ deleteConfirm' = <<>>

onReturns == mainAppMounted /\ activeItem = "Returns"

SetRetMedicineName(v) ==
    /\ onReturns
    /\ retMedicineName' = v
    /\ toast' = NoToast
    /\ UNCHANGED <<authVars, opVars, pharmacyVars, inventoryVars, priceVars,
                   paymentsVars, activeItem, returns, retItemCounter, retQuantity, retReason,
                   retMessage, deleteConfirm>>

SetRetQuantity(t) ==
    /\ onReturns
    /\ retQuantity' = t
    /\ toast' = NoToast
    /\ UNCHANGED <<authVars, opVars, pharmacyVars, inventoryVars, priceVars,
                   paymentsVars, activeItem, returns, retItemCounter, retMedicineName, retReason,
                   retMessage, deleteConfirm>>

SetRetReason(v) ==
    /\ onReturns
    /\ retReason' = v
    /\ toast' = NoToast
    /\ UNCHANGED <<authVars, opVars, pharmacyVars, inventoryVars, priceVars,
                   paymentsVars, activeItem, returns, retItemCounter, retMedicineName, retQuantity,
                   retMessage, deleteConfirm>>

\* the return handleAddReturn builds
NewReturn ==
    [ id |-> retItemCounter + 1,
      medicineName |-> retMedicineName,
      quantity |-> parseInt(retQuantity),
      reason |-> retReason,
      status |-> "pending" ]

\* "Add Return": the new return goes to the head of the list
HandleAddReturn ==
    /\ onReturns
    /\ retItemCounter < MaxReturns
    /\ IF retMedicineName = "" \/ retQuantity = <<>> \/ retReason = ""
       THEN /\ retMessage' = Message("error", "Please fill all required fields")
            /\ UNCHANGED <<returns, retItemCounter, retMedicineName, retQuantity,
                           retReason>>
       ELSE /\ returns' = << NewReturn >> \o returns
            /\ retItemCounter' = retItemCounter + 1
            /\ retMedicineName' = "" /\ retQuantity' = <<>> /\ retReason' = ""
            /\ retMessage' = Message("success", "Return request added successfully")
    /\ toast' = NoToast
    /\ UNCHANGED <<authVars, opVars, pharmacyVars, inventoryVars, priceVars,
                   paymentsVars, activeItem, deleteConfirm>>

\* the status of the return with this id replaced
WithStatus(list, id, status) ==
    [ i \in 1..Len(list) |->
        IF list[i].id = id THEN [ list[i] EXCEPT !.status = status ] ELSE list[i] ]

\* mutant of HandleUpdateStatus: Approve and Reject rendered in every row
HandleUpdateStatus_EveryRow(id, status) ==
    /\ onReturns
    /\ \E i \in 1..Len(returns) : returns[i].id = id
    /\ returns' = WithStatus(returns, id, status)
    /\ toast' = NoToast
    /\ UNCHANGED <<authVars, opVars, pharmacyVars, inventoryVars, priceVars,
                   paymentsVars, activeItem, retItemCounter, retMedicineName, retQuantity, retReason,
                   retMessage, deleteConfirm>>

\* Approve / Reject, rendered in the rows whose status is 'pending'
HandleUpdateStatus(id, status) ==
    /\ onReturns
    /\ \E i \in 1..Len(returns) : returns[i].id = id /\ returns[i].status = "pending"
    /\ returns' = WithStatus(returns, id, status)
    /\ toast' = NoToast
    /\ UNCHANGED <<authVars, opVars, pharmacyVars, inventoryVars, priceVars,
                   paymentsVars, activeItem, retItemCounter, retMedicineName, retQuantity, retReason,
                   retMessage, deleteConfirm>>

\* Delete, rendered in every row
RequestDelete(id) ==
    /\ onReturns
    /\ \E i \in 1..Len(returns) : returns[i].id = id
    /\ deleteConfirm' = << id >>
    /\ toast' = NoToast
    /\ UNCHANGED <<authVars, opVars, pharmacyVars, inventoryVars, priceVars,
                   paymentsVars, activeItem, returns, retItemCounter, retMedicineName, retQuantity,
                   retReason, retMessage>>

\* the returns whose id is not the given one
RECURSIVE WithoutReturn(_, _)
WithoutReturn(list, id) ==
    IF list = <<>> THEN <<>>
    ELSE IF Head(list).id # id
         THEN << Head(list) >> \o WithoutReturn(Tail(list), id)
         ELSE WithoutReturn(Tail(list), id)

\* the dialog's Delete
HandleDelete ==
    /\ onReturns
    /\ deleteConfirm # <<>>
    /\ returns' = WithoutReturn(returns, deleteConfirm[1])
    /\ retMessage' = Message("success", "Return request deleted")
    /\ deleteConfirm' = <<>>
    /\ toast' = NoToast
    /\ UNCHANGED <<authVars, opVars, pharmacyVars, inventoryVars, priceVars,
                   paymentsVars, activeItem, retItemCounter, retMedicineName, retQuantity, retReason>>

\* the dialog's Cancel
CloseDeleteConfirm ==
    /\ onReturns
    /\ deleteConfirm # <<>>
    /\ deleteConfirm' = <<>>
    /\ toast' = NoToast
    /\ UNCHANGED <<authVars, opVars, pharmacyVars, inventoryVars, priceVars,
                   paymentsVars, activeItem, returns, retItemCounter, retMedicineName, retQuantity,
                   retReason, retMessage>>

----------------------------------------------------------------------------
(* MainApp *)

\* onNavigate = setActiveItem: the old page unmounts, the new one mounts afresh
Navigate(p) ==
    /\ mainAppMounted
    /\ p # activeItem
    /\ activeItem' = p
    /\ toast' = NoToast
    /\ PharmacyMount
    /\ InventoryMount
    /\ PaymentsMount
    /\ OPMount
    /\ ReturnsMount
    /\ UNCHANGED authVars

\* the credentials a successful login stores, and the session they give
StoredSession == [auth_token |-> "jwt", username |-> "admin"]

\* what <Route path="/*"> shows: ProtectedRoute's loader, null or its children
\* (MainApp); on /login the route does not match
\* mutant of ProtectedRouteRenders: the loading flag not consulted
ProtectedRouteRenders_IgnoresLoading(loc, loading, authenticated) ==
    IF loc = "/login" THEN "unmatched"
    ELSE IF ~authenticated THEN "null"
    ELSE "children"

ProtectedRouteRenders(loc, loading, authenticated) ==
    IF loc = "/login" THEN "unmatched"
    ELSE IF loading THEN "loader"
    ELSE IF ~authenticated THEN "null"
    ELSE "children"

\* ProtectedRoute's effect: navigate('/login', {replace: true}) once the check
\* has finished without a session
RedirectedFrom(loc, loading, authenticated) ==
    IF loc # "/login" /\ ~loading /\ ~authenticated THEN "/login" ELSE loc

\* the commit after a change of the session: loc is where the handler left the
\* router; the effect of ProtectedRoute runs, and MainApp mounts (all state
\* afresh, page OP) or unmounts with what ProtectedRoute renders
SessionCommit(loc) ==
    /\ location' = RedirectedFrom(loc, authIsLoading', isAuthenticated')
    /\ mainAppMounted' =
          (ProtectedRouteRenders(location', authIsLoading', isAuthenticated') = "children")
    /\ IF mainAppMounted' /\ ~mainAppMounted
       THEN /\ activeItem' = "OP"
            /\ PharmacyMount
            /\ InventoryMount
            /\ PaymentsMount
            /\ OPMount
            /\ ReturnsMount
       ELSE UNCHANGED <<activeItem, pharmacyVars, inventoryVars, priceVars,
                        paymentsVars, opVars, returnsVars>>

\* answers to GET /api/auth/verify: valid, valid = false, a rejected request, a
\* rejected request with status 401
VerifyOutcomes == { "valid", "invalid", "error", "unauthorized" }

\* verifyToken after its await
VerifyResponse(outcome) ==
    /\ verifyGet
    /\ verifyGet' = FALSE
    /\ IF outcome = "valid"
       THEN /\ isAuthenticated' = TRUE
            /\ authUsername' = << StoredSession.username >>
            /\ UNCHANGED localStorage
       ELSE /\ localStorage' = <<>>
            /\ UNCHANGED <<isAuthenticated, authUsername>>
    /\ authIsLoading' = FALSE
    /\ UNCHANGED <<loginPost, loginIsLoading, toast>>
    /\ SessionCommit(location)

\* what the operator types into the login form
LoginInputs == { [username |-> "admin", password |-> "secret"],
                 [username |-> "admin", password |-> ""] }

\* Login.handleSubmit up to its await; the button is disabled while isLoading
LoginHandleSubmit(c) ==
    /\ location = "/login" /\ ~loginIsLoading
    /\ IF c.username = "" \/ c.password = ""
       THEN /\ toast' = Toast("error", "Please enter both username and password")
            /\ UNCHANGED <<loginPost, loginIsLoading>>
       ELSE /\ loginPost' = << c >>
            /\ loginIsLoading' = TRUE
            /\ toast' = NoToast
    /\ UNCHANGED <<localStorage, isAuthenticated, authUsername, authIsLoading,
                   location, verifyGet, mainAppMounted>>
    /\ UNCHANGED <<activeItem, pharmacyVars, inventoryVars, priceVars,
                   paymentsVars, opVars, returnsVars>>

\* answers to POST /api/auth/login: a token, a rejected request, a rejected
\* request with status 401
LoginOutcomes == { "ok", "rejected", "unauthorized" }

\* AuthProvider.login after its await, then the rest of Login.handleSubmit
LoginResponse(outcome) ==
    /\ loginPost # <<>>
    /\ loginPost' = <<>>
    /\ loginIsLoading' = FALSE
    /\ IF outcome = "ok"
       THEN /\ localStorage' = << StoredSession >>
            /\ isAuthenticated' = TRUE
            /\ authUsername' = << StoredSession.username >>
            /\ toast' = Toast("success", "Welcome back!")
       ELSE /\ localStorage' = IF outcome = "unauthorized" THEN <<>> ELSE localStorage
            /\ toast' = Toast("error", "Login failed")
            /\ UNCHANGED <<isAuthenticated, authUsername>>
    /\ UNCHANGED <<authIsLoading, verifyGet>>
    /\ SessionCommit(IF outcome = "ok" THEN "/" ELSE location)

\* AuthProvider.logout, from the sidebar of MainApp
Logout ==
    /\ mainAppMounted
    /\ localStorage' = <<>>
    /\ isAuthenticated' = FALSE
    /\ authUsername' = <<>>
    /\ toast' = NoToast
    /\ UNCHANGED <<authIsLoading, verifyGet, loginPost, loginIsLoading>>
    /\ SessionCommit(location)

\* the application loaded at path loc with what localStorage holds: AuthProvider
\* is constructed (isAuthenticated false, isLoading true) and its mount effect
\* either starts the verify request or, without a stored token, ends the check;
\* the effect of ProtectedRoute follows
SessionLoaded(stored, loc) ==
    /\ localStorage = stored
    /\ isAuthenticated = FALSE
    /\ authUsername = <<>>
    /\ verifyGet = (stored # <<>>)
    /\ authIsLoading = (stored # <<>>)
    /\ location = RedirectedFrom(loc, stored # <<>>, FALSE)
    /\ loginPost = <<>>
    /\ loginIsLoading = FALSE
    /\ mainAppMounted = FALSE

\* the operator reloads the page (or opens the address loc): everything is
\* constructed again, localStorage survives
Reload(loc) ==
    /\ UNCHANGED localStorage
    /\ isAuthenticated' = FALSE
    /\ authUsername' = <<>>
    /\ verifyGet' = (localStorage # <<>>)
    /\ authIsLoading' = (localStorage # <<>>)
    /\ location' = RedirectedFrom(loc, localStorage # <<>>, FALSE)
    /\ loginPost' = <<>>
    /\ loginIsLoading' = FALSE
    /\ mainAppMounted' = FALSE
    /\ toast' = NoToast
    /\ UNCHANGED <<activeItem, pharmacyVars, inventoryVars, priceVars,
                   paymentsVars, opVars, returnsVars>>

\* MainApp mounted in a session that a login has authenticated: the state every
\* page specification starts from
Init ==
    /\ localStorage = << StoredSession >>
    /\ isAuthenticated = TRUE
    /\ authUsername = << StoredSession.username >>
    /\ authIsLoading = FALSE
    /\ location = "/"
    /\ verifyGet = FALSE
    /\ loginPost = <<>>
    /\ loginIsLoading = FALSE
    /\ mainAppMounted = TRUE
    /\ activeItem = "OP"
    /\ toast = NoToast
    /\ PharmacyInit
    /\ InventoryInit
    /\ PaymentsInit
    /\ OPInit
    /\ ReturnsInit

\* the application as the browser loads it, with or without stored credentials
InitAuth ==
    /\ \E stored \in { <<>>, << StoredSession >> }, loc \in { "/", "/login" } :
          SessionLoaded(stored, loc)
    /\ activeItem = "OP"
    /\ toast = NoToast
    /\ PharmacyInit
    /\ InventoryInit
    /\ PaymentsInit
    /\ OPInit
    /\ ReturnsInit

----------------------------------------------------------------------------
(* Specifications.  The handlers are the same in all of them; they differ  *)
(* in the texts the operator types and the answers the backend gives, so   *)
(* that each explores one part of the draft in full.                       *)

MedicineNames == { Catalog[i].MName : i \in 1..Len(Catalog) }

\* the operations every specification has; E.* are the input domains
PharmacyCore(E) ==
    \/ \E data \in E.patientLists : FetchPatientsDone(data)
    \/ \E data \in E.medicineLists : FetchMedicinesDone(data)
    \/ \E v \in E.patientInputs : HandlePatientSelect(v)
    \/ \E v \in {""} \cup MedicineNames : HandleMedicineSelect(v)
    \/ \E q \in E.qtyInputs : SetQuantity(q)
    \/ HandleAddMedicine
    \/ \E id \in 1..MaxItems : HandleRemoveMedicine(id)
    \/ ConfirmClearAll
    \/ \E m \in E.modes : SetPaymentMode(m)
    \/ HandleClearForm
    \/ HandleSubmit
    \/ \E o \in E.outcomes : InvoiceResponse(o)
    \/ \E data \in E.patientLists : RefreshPatientsDone(data)

\* ---- Spec: the lines of the draft (two medicines, discounts below and above
\* the subtotal, every outcome of a submission)
EnvLines ==
    [ patientLists |-> { TodayPatients },
      medicineLists |-> { <<>>, Catalog },
      patientInputs |-> { "Asha" },
      qtyInputs |-> { <<"2">> },
      modes |-> { "Cash" },
      outcomes |-> InvoiceOutcomes ]

\* the entry operations of the Inventory page
InventoryEntry(E) ==
    \/ \E data \in E.nameLists : InvFetchMedicinesDone(data)
    \/ \E name \in E.invNames : InvHandleMedicineSelect(name)
    \/ \E name \in E.invNames, ok \in E.detailsOk : MedicineDetailsResponse(name, ok)
    \/ \E q \in E.invQtyInputs : InvSetQuantity(q)
    \/ HandleAddItem
    \/ \E id \in 1..MaxItems : HandleRemoveItem(id)

\* the operations of the Inventory page: entry, header and submission
InventoryCore(E) ==
    \/ InventoryEntry(E)
    \/ \E n \in E.billNos : SetBillNo(n)
    \/ \E a \in E.agencies : SetAgency(a)
    \/ HandleSubmitBill
    \/ \E o \in E.outcomes : BillResponse(o)

EnvInvLines ==
    [ nameLists |-> { <<>>, InventoryNames },
      billNos |-> { "B-1" },
      agencies |-> { "MedSupply" },
      invNames |-> { "Paracetamol" },
      detailsOk |-> { TRUE },
      invQtyInputs |-> { <<"2">> },
      outcomes |-> InvoiceOutcomes ]

Next ==
    \/ \E p \in { "OP", "Pharmacy", "Inventory" } : Navigate(p)
    \/ PharmacyCore(EnvLines)
    \/ \E d \in { <<>>, <<25000>>, <<0 - 5000>> } : SetDiscount(d)
    \/ InventoryCore(EnvInvLines)

Spec == Init /\ [][Next]_vars

\* ---- SpecEntry: the entry boxes (every quantity text, one medicine of stock 2)
EnvEntry ==
    [ patientLists |-> { TodayPatients },
      medicineLists |-> { <<>>, << Catalog[1] >> },
      patientInputs |-> { "Asha" },
      qtyInputs |-> QtyInputs,
      modes |-> { "Cash" },
      outcomes |-> InvoiceOutcomes ]

EnvInvEntry ==
    [ nameLists |-> { <<>>, InventoryNames },
      invNames |-> { "", "Paracetamol" },
      detailsOk |-> { TRUE },
      invQtyInputs |-> QtyInputs ]

NextEntry ==
    \/ \E p \in { "OP", "Pharmacy", "Inventory" } : Navigate(p)
    \/ PharmacyCore(EnvEntry)
    \/ InventoryEntry(EnvInvEntry)

SpecEntry == Init /\ [][NextEntry]_vars

\* ---- SpecPayment: payment mode, cash and UPI boxes, discounts (one medicine)
EnvPayment ==
    [ patientLists |-> { TodayPatients },
      medicineLists |-> { <<>>, << Catalog[1] >> },
      patientInputs |-> { "Asha" },
      qtyInputs |-> { <<"2">> },
      modes |-> PaymentModes,
      outcomes |-> InvoiceOutcomes ]

NextPayment ==
    \/ \E p \in { "OP", "Pharmacy" } : Navigate(p)
    \/ PharmacyCore(EnvPayment)
    \/ \E d \in { <<>>, <<5000>>, <<4>> } : SetDiscount(d)
    \/ \E c \in CashInputs : SetCashAmount(c)
    \/ \E u \in UpiInputs : SetUpiAmount(u)

SpecPayment == Init /\ [][NextPayment]_vars

\* ---- SpecSplit: split payments whose parts are typed freely; the boxes are
\* number inputs with min 0 and no form around them, so a typed negative part
\* reaches setCashAmount like any other text
SplitCashInputs == { <<0 - 5000>>, <<10000>> }
SplitUpiInputs == { <<25000>>, <<10000>> }

NextSplit ==
    \/ \E p \in { "OP", "Pharmacy" } : Navigate(p)
    \/ PharmacyCore(EnvPayment)
    \/ \E c \in SplitCashInputs : SetCashAmount(c)
    \/ \E u \in SplitUpiInputs : SetUpiAmount(u)

SpecSplit == Init /\ [][NextSplit]_vars

\* ---- SpecSubmit: the required fields of both pages
EnvSubmit ==
    [ patientLists |-> { <<>>, TodayPatients },
      medicineLists |-> { <<>>, << Catalog[1] >> },
      patientInputs |-> { "", "Asha" },
      qtyInputs |-> { <<"2">> },
      modes |-> { "", "Cash" },
      outcomes |-> InvoiceOutcomes ]

EnvInvSubmit ==
    [ nameLists |-> { <<>>, InventoryNames },
      billNos |-> { "", "B-1" },
      agencies |-> { "", "MedSupply" },
      invNames |-> { "Paracetamol" },
      detailsOk |-> { TRUE },
      invQtyInputs |-> { <<"2">> },
      outcomes |-> InvoiceOutcomes ]

NextSubmit ==
    \/ \E p \in { "OP", "Pharmacy", "Inventory" } : Navigate(p)
    \/ PharmacyCore(EnvSubmit)
    \/ \E ph \in PhoneInputs : SetPhoneNo(ph)
    \/ InventoryCore(EnvInvSubmit)
    \/ \E d \in { "", Today } : SetBillDate(d)
    \/ \E d \in { "", Today } : SetDeliveryDate(d)

SpecSubmit == Init /\ [][NextSubmit]_vars

\* the operations of the Payments page
PaymentsCore ==
    \/ FetchBills
    \/ \E o \in FetchOutcomes, data \in BillListings : FetchBillsDone(o, data)
    \/ \E i \in 1..2 : OpenPaymentModal(i)
    \/ ClosePaymentModal
    \/ \E m \in PayModes : SetPayMode(m)
    \/ \E t \in AmountPaidInputs : SetAmountPaid(t)
    \/ HandlePayment
    \/ \E o \in InvoiceOutcomes : PaymentResponse(o)
    \/ DismissPayMessage

\* ---- SpecPayments: the supplier bills and the payment modal
NextPayments ==
    \/ \E p \in { "OP", "Payments" } : Navigate(p)
    \/ PaymentsCore

SpecPayments == Init /\ [][NextPayments]_vars

\* ---- SpecSubmissions: the submitting operations of the three pages
EnvSubmissions ==
    [ patientLists |-> { TodayPatients },
      medicineLists |-> { << Catalog[1] >> },
      patientInputs |-> { "Asha" },
      qtyInputs |-> { <<"2">> },
      modes |-> { "Cash" },
      outcomes |-> InvoiceOutcomes ]

NextSubmissions ==
    \/ \E p \in { "OP", "Pharmacy", "Inventory", "Payments" } : Navigate(p)
    \/ PharmacyCore(EnvSubmissions)
    \/ InventoryCore(EnvInvLines)
    \/ PaymentsCore

SpecSubmissions == Init /\ [][NextSubmissions]_vars

\* ---- SpecPrice: the update-price modal of the Inventory page
NextPrice ==
    \/ \E p \in { "OP", "Inventory" } : Navigate(p)
    \/ \E data \in { <<>>, InventoryNames } : InvFetchMedicinesDone(data)
    \/ OpenUpdatePriceModal
    \/ CloseUpdatePriceModal
    \/ \E name \in { "", "Paracetamol", "Amoxicillin" } : HandleUpdateMedicineSelect(name)
    \/ \E name \in { "Paracetamol", "Amoxicillin" }, ok \in BOOLEAN :
          PriceDetailsResponse(name, ok)
    \/ \E t \in NewMrpInputs : SetNewMRP(t)
    \/ RequestPriceUpdate
    \/ CancelPriceUpdate
    \/ HandleUpdatePrice
    \/ \E o \in PriceUpdateOutcomes : PriceUpdateResponse(o)

SpecPrice == Init /\ [][NextPrice]_vars

\* ---- SpecPurchase: the purchase price of a line, with and without catalog
\* details (lines are added, not removed)
NextPurchase ==
    \/ \E p \in { "OP", "Inventory" } : Navigate(p)
    \/ InvFetchMedicinesDone(InventoryNames)
    \/ SetBillNo("B-1")
    \/ SetAgency("MedSupply")
    \/ InvHandleMedicineSelect("Paracetamol")
    \/ \E ok \in BOOLEAN : MedicineDetailsResponse("Paracetamol", ok)
    \/ InvSetQuantity(<<"2">>)
    \/ \E t \in { <<>>, <<12000>> } : SetPurchasePrice(t)
    \/ HandleAddItem
    \/ HandleSubmitBill
    \/ \E o \in InvoiceOutcomes : BillResponse(o)

SpecPurchase == Init /\ [][NextPurchase]_vars

\* ---- SpecBillTotal: the header amounts of a bill and the total sent with it
NextBillTotal ==
    \/ \E p \in { "OP", "Inventory" } : Navigate(p)
    \/ InvFetchMedicinesDone(InventoryNames)
    \/ SetBillNo("B-1")
    \/ SetAgency("MedSupply")
    \/ SetBillAmount(<<50000>>)
    \/ SetTaxAmount(<<5000>>)
    \/ \E v \in { "No", "Yes" } : SetDiscountInBill(v)
    \/ \E t \in HeaderAmountInputs : SetDiscountAmount(t)
    \/ InvHandleMedicineSelect("Paracetamol")
    \/ MedicineDetailsResponse("Paracetamol", TRUE)
    \/ InvSetQuantity(<<"2">>)
    \/ HandleAddItem
    \/ HandleSubmitBill
    \/ \E o \in InvoiceOutcomes : BillResponse(o)

SpecBillTotal == Init /\ [][NextBillTotal]_vars

\* ---- SpecAuth: the session from the load of the application on: verify,
\* login, logout, reload, and the bills of the Payments page as the protected
\* API call
NextAuth ==
    \/ \E o \in VerifyOutcomes : VerifyResponse(o)
    \/ \E c \in LoginInputs : LoginHandleSubmit(c)
    \/ \E o \in LoginOutcomes : LoginResponse(o)
    \/ Logout
    \/ \E loc \in { "/", "/login" } : Reload(loc)
    \/ \E p \in { "OP", "Payments" } : Navigate(p)
    \/ FetchBills
    \/ \E o \in { "success", "unauthorized" } : FetchBillsDone(o, << UnpaidBill >>)

SpecAuth == InitAuth /\ [][NextAuth]_vars

\* every request is answered in the end (axios times out after 30 s); what the
\* operator does is not forced
SpecAuthLive ==
    /\ SpecAuth
    /\ WF_vars(\E o \in VerifyOutcomes : VerifyResponse(o))
    /\ WF_vars(\E o \in LoginOutcomes : LoginResponse(o))
    /\ WF_vars(\E o \in { "success", "unauthorized" } : FetchBillsDone(o, << UnpaidBill >>))

\* ---- SpecUhid: the patient name of the OP form and the UHID generated for it
NextUhid ==
    \/ \E p \in { "OP", "Payments" } : Navigate(p)
    \/ \E v \in NameInputs : HandlePatientNameChange(v)
    \/ UhidTimerFires
    \/ \E i \in 1..MaxPending, ok \in BOOLEAN : GenerateUhidResponse(i, ok)
    \/ OPHandleClear

SpecUhid == Init /\ [][NextUhid]_vars

\* ---- SpecDetails: two medicines of the purchase entry and the responses to
\* their detail requests, in any order
NextDetails ==
    \/ \E p \in { "OP", "Inventory" } : Navigate(p)
    \/ InvFetchMedicinesDone(InventoryNames)
    \/ \E name \in { "Paracetamol", "Amoxicillin" } : InvHandleMedicineSelect(name)
    \/ \E name \in { "Paracetamol", "Amoxicillin" } : MedicineDetailsResponse(name, TRUE)
    \/ InvSetQuantity(<<"2">>)
    \/ HandleAddItem

SpecDetails == Init /\ [][NextDetails]_vars

\* ---- SpecReturns: the list of the Returns screen
NextReturns ==
    \/ \E p \in { "OP", "Returns" } : Navigate(p)
    \/ \E v \in { "", "Ibuprofen" } : SetRetMedicineName(v)
    \/ SetRetQuantity(<<"1">>)
    \/ SetRetReason("Expired")
    \/ HandleAddReturn
    \/ \E id \in 1..MaxReturns, s \in { "approved", "rejected" } : HandleUpdateStatus(id, s)
    \/ \E id \in 1..MaxReturns : RequestDelete(id)
    \/ HandleDelete
    \/ CloseDeleteConfirm

SpecReturns == Init /\ [][NextReturns]_vars

----------------------------------------------------------------------------
(* Properties *)

\* the sum over the lines of quantity x unit price
RECURSIVE QtyTimesPrice(_)
QtyTimesPrice(lines) ==
    IF lines = <<>> THEN 0
    ELSE Head(lines).qty * Head(lines).price + QtyTimesPrice(Tail(lines))

RECURSIVE SentQtyTimesPrice(_)
SentQtyTimesPrice(lines) ==
    IF lines = <<>> THEN 0
    ELSE Head(lines).quantity * Head(lines).price + SentQtyTimesPrice(Tail(lines))

\* s without its k-th element
WithoutIndex(s, k) == SubSeq(s, 1, k - 1) \o SubSeq(s, k + 1, Len(s))

StrictlyIncreasingIds(lines) ==
    \A i, j \in 1..Len(lines) : i < j => lines[i].id < lines[j].id

\* C1: the payable amount of the Pharmacy draft is max(subtotal - discount, 0) for
\* every signed discount: 0 when the discount exceeds the subtotal, above the
\* subtotal when the discount is negative, never negative; the amount a Cash
\* invoice carries is that value of the lines and discount it carries.
C1_FinalAmountClamped ==
    LET subtotal == QtyTimesPrice(billItems)
    IN  /\ finalAmount = (IF subtotal - discountValue >= 0 THEN subtotal - discountValue ELSE 0)
        /\ finalAmount >= 0
        /\ discountValue > subtotal => finalAmount = 0
        /\ discountValue < 0 => finalAmount > subtotal
        /\ \A i \in 1..Len(invoicePost) :
              LET r == invoicePost[i]
                  sent == SentQtyTimesPrice(r.medicines)
              IN  r.payment_mode = "Cash" =>
                    /\ r.cash_amount >= 0
                    /\ r.cash_amount = (IF sent - r.discount >= 0 THEN sent - r.discount ELSE 0)

\* C1 witness: a Cash invoice in flight whose discount exceeds its subtotal
C1_Witness ==
    /\ invoicePost # <<>>
    /\ invoicePost[1].payment_mode = "Cash"
    /\ invoicePost[1].discount > SentQtyTimesPrice(invoicePost[1].medicines)
    /\ invoicePost[1].cash_amount = 0

\* C2: in every reachable state every line of the Pharmacy draft has
\* total = qty x price, and the subtotal is the sum of quantity x unit price.
C2_SubtotalIsSumOfLines ==
    /\ \A i \in 1..Len(billItems) : billItems[i].total = billItems[i].qty * billItems[i].price
    /\ grandTotal = QtyTimesPrice(billItems)

\* C2 witness: two lines of different medicines left after a removal
C2_Witness ==
    /\ Len(billItems) = 2
    /\ itemCounter = 3
    /\ billItems[1].price # billItems[2].price
    /\ grandTotal = 50000

\* C4: while a billing page stays mounted its id counter never decreases, a line
\* that enters the sequence is appended at the end with an id above the counter as
\* it was (so above every id given before), and in every state the ids of the
\* sequence are strictly increasing and at most the counter.
C4_IdsInvariant ==
    /\ StrictlyIncreasingIds(billItems)
    /\ \A i \in 1..Len(billItems) : billItems[i].id <= itemCounter
    /\ StrictlyIncreasingIds(invItems)
    /\ \A i \in 1..Len(invItems) : invItems[i].id <= invItemCounter

C4_IdsStep ==
    activeItem' = activeItem =>
        /\ itemCounter' >= itemCounter
        /\ invItemCounter' >= invItemCounter
        /\ Len(billItems') > Len(billItems) =>
              /\ SubSeq(billItems', 1, Len(billItems)) = billItems
              /\ Len(billItems') = Len(billItems) + 1
              /\ billItems'[Len(billItems')].id > itemCounter
        /\ Len(invItems') > Len(invItems) =>
              /\ SubSeq(invItems', 1, Len(invItems)) = invItems
              /\ Len(invItems') = Len(invItems) + 1
              /\ invItems'[Len(invItems')].id > invItemCounter

C4_IdsNeverReused == [](C4_IdsInvariant) /\ [][C4_IdsStep]_vars

\* C4 witness: a line added after a successful submission cleared the draft
C4_Witness ==
    /\ submitMessage.type = "success"
    /\ Len(billItems) = 1
    /\ billItems[1].id = 3

\* C5: a remove-line step for id i deletes exactly the one line whose id is i and
\* keeps every other line, with its fields, in its place; filtering an id that no
\* line has leaves the sequence as it is.
C5_RemoveStep ==
    \A id \in 1..(MaxItems + 1) :
        /\ HandleRemoveMedicine(id) =>
              \E k \in 1..Len(billItems) :
                  /\ billItems[k].id = id
                  /\ billItems' = WithoutIndex(billItems, k)
        /\ HandleRemoveItem(id) =>
              \E k \in 1..Len(invItems) :
                  /\ invItems[k].id = id
                  /\ invItems' = WithoutIndex(invItems, k)

C5_AbsentIdNoOp ==
    \A id \in 1..(MaxItems + 1) :
        /\ (\A i \in 1..Len(billItems) : billItems[i].id # id)
              => FilterOutId(billItems, id) = billItems
        /\ (\A i \in 1..Len(invItems) : invItems[i].id # id)
              => FilterOutId(invItems, id) = invItems

C5_RemoveExactlyThatLine == [](C5_AbsentIdNoOp) /\ [][C5_RemoveStep]_vars

\* C5 witness: three lines were added and the second was removed
C5_Witness ==
    /\ Len(billItems) = 2
    /\ billItems[1].id = 1
    /\ billItems[2].id = 3

\* a quantity text that is the numeral of an integer
IsIntegerText(text) ==
    /\ text # <<>>
    /\ \A i \in 1..Len(text) : text[i] \in Digits

\* an add request the billing contract refuses: no medicine, or a quantity that
\* is not a positive integer
InvalidEntry(name, text) ==
    \/ name = ""
    \/ ~IsIntegerText(text)
    \/ parseInt(text)[1] <= 0

\* C3: an add-line request with an empty medicine name, a quantity <= 0 or a
\* non-integer quantity leaves the lines and the id counter as they were and
\* signals an error, on the Pharmacy page and on the Inventory page.
C3_InvalidAddRejected ==
    [][ /\ (HandleAddMedicine /\ InvalidEntry(selectedMedicine, quantity)) =>
              /\ billItems' = billItems
              /\ itemCounter' = itemCounter
              /\ toast'.type \in { "warning", "error" }
        /\ (HandleAddItem /\ InvalidEntry(invSelectedMedicine, invQuantity)) =>
              /\ invItems' = invItems
              /\ invItemCounter' = invItemCounter
              /\ invMessage'.type = "error" ]_vars

\* the stock of the selected medicine in the loaded list
StockOf(name) == FindMedicine(medicines, name)[1].CurrentStock

\* C6: an add request on the Pharmacy page for a positive quantity q of a medicine
\* with stock s is refused exactly when q > s (q = s is accepted and becomes a
\* line of quantity q); no step of a mounted page changes the loaded medicine list,
\* and every line asks at most the stock of its medicine.
C6_StockStep ==
    /\ (HandleAddMedicine /\ FindMedicine(medicines, selectedMedicine) # <<>>
          /\ ~isNaN(parseInt(quantity)) /\ parseInt(quantity)[1] > 0) =>
            LET q == parseInt(quantity)[1]
                s == StockOf(selectedMedicine)
            IN  IF q > s
                THEN /\ billItems' = billItems
                     /\ toast' = Toast("error", "Insufficient stock")
                ELSE /\ Len(billItems') = Len(billItems) + 1
                     /\ billItems'[Len(billItems')].name = selectedMedicine
                     /\ billItems'[Len(billItems')].qty = q
                     /\ itemCounter' = itemCounter + 1
                     /\ toast' = NoToast
    /\ (activeItem' = activeItem /\ ~loadingMedicines) => medicines' = medicines

C6_LinesWithinStock ==
    \A i \in 1..Len(billItems) :
        /\ FindMedicine(medicines, billItems[i].name) # <<>>
        /\ billItems[i].qty <= StockOf(billItems[i].name)

C6_StockCheck == [](C6_LinesWithinStock) /\ [][C6_StockStep]_vars

\* C6 witness: a line holds the whole stock of its medicine, and a later request
\* above the stock was refused
C6_Witness ==
    /\ toast = Toast("error", "Insufficient stock")
    /\ \E i \in 1..Len(billItems) : billItems[i].qty = StockOf(billItems[i].name)

\* C7: a submit in mode Both with |cash + upi - finalAmount| > 0.01 sends no
\* request, shows a toast (the mismatch error when the earlier checks pass) and
\* leaves both amounts as typed; with a difference of at most 0.01 and the earlier
\* checks passed the request is sent with the amounts as typed.
C7_SplitStep ==
    (HandleSubmit /\ paymentMode = "Both") =>
        LET cash == parseFloatOr0(cashAmount)
            upi == parseFloatOr0(upiAmount)
            diff == IF cash + upi >= finalAmount THEN cash + upi - finalAmount
                    ELSE finalAmount - (cash + upi)
            othersPass == /\ patientName # ""
                          /\ (isNewPatient /\ phoneNo # "") => ValidPhone(phoneNo)
        IN  IF diff > Cent
            THEN /\ invoicePost' = <<>>
                 /\ ~submitting'
                 /\ toast'.type \in { "warning", "error" }
                 /\ othersPass => toast' = Toast("error", "Cash + UPI must equal total")
                 /\ cashAmount' = cashAmount
                 /\ upiAmount' = upiAmount
            ELSE othersPass =>
                     /\ Len(invoicePost') = 1
                     /\ invoicePost'[1].payment_mode = "Both"
                     /\ invoicePost'[1].cash_amount = cash
                     /\ invoicePost'[1].upi_amount = upi

C7_SplitMismatchBlocks == [][C7_SplitStep]_vars

\* C7 witness: a Both invoice in flight whose amounts sum to 0.01 less than the
\* amount payable
C7_Witness ==
    /\ invoicePost # <<>>
    /\ invoicePost[1].payment_mode = "Both"
    /\ invoicePost[1].cash_amount + invoicePost[1].upi_amount + Cent
         = FinalAmountOf(SentQtyTimesPrice(invoicePost[1].medicines), invoicePost[1].discount)

\* the Pharmacy draft fails a required-field check of handleSubmit
PharmacyDraftInvalid ==
    \/ patientName = ""
    \/ billItems = <<>>
    \/ paymentMode = ""
    \/ (isNewPatient /\ phoneNo # "" /\ ~ValidPhone(phoneNo))

\* the Inventory bill fails a required-field check of handleSubmitBill
InventoryBillInvalid ==
    \/ invBillDate = ""
    \/ invBillNo = ""
    \/ invDeliveryDate = ""
    \/ invAgency = ""
    \/ invItems = <<>>

\* C8: no step taken from a draft that fails local validation puts a request in
\* flight, and a submit of such a draft surfaces a warning or an error (toast on
\* the Pharmacy page, message on the Inventory page); a request in flight always
\* carries a patient, lines and a payment mode (an invoice number, an agency,
\* dates and items on the Inventory page).
C8_ValidationStep ==
    /\ PharmacyDraftInvalid => (invoicePost' = invoicePost \/ invoicePost' = <<>>)
    /\ (HandleSubmit /\ PharmacyDraftInvalid) =>
          /\ toast'.type \in { "warning", "error" }
          /\ submitting' = submitting
    /\ InventoryBillInvalid => (billPost' = billPost \/ billPost' = <<>>)
    /\ (HandleSubmitBill /\ InventoryBillInvalid) =>
          /\ invMessage'.type = "error"
          /\ invIsSubmitting' = invIsSubmitting

C8_RequestsAreValid ==
    /\ \A i \in 1..Len(invoicePost) :
          /\ invoicePost[i].patient_name # ""
          /\ invoicePost[i].medicines # <<>>
          /\ invoicePost[i].payment_mode # ""
    /\ \A i \in 1..Len(billPost) :
          /\ billPost[i].BillNo # ""
          /\ billPost[i].Agency # ""
          /\ billPost[i].BillDate # ""
          /\ billPost[i].DeliveryDate # ""
          /\ billPost[i].items # <<>>

C8_NoPostOnValidationFailure == [](C8_RequestsAreValid) /\ [][C8_ValidationStep]_vars

\* C8 witness: a submit refused for a malformed phone number of a new patient,
\* with lines and a payment mode in the draft and nothing in flight
C8_Witness ==
    /\ toast = Toast("warning", "Please enter a valid 10-digit phone number or leave it blank")
    /\ billItems # <<>>
    /\ paymentMode = "Cash"
    /\ invoicePost = <<>>
    /\ ~submitting

\* C9 as stated: a change of the payment mode to Cash leaves the cash box holding
\* finalAmount and the UPI box 0; a change to UPI the reverse.
C9_ModeOverwritesWithFinalAmount ==
    [][ (paymentMode' # paymentMode /\ activeItem' = activeItem) =>
          /\ paymentMode' = "Cash" =>
                /\ parseFloatOr0(cashAmount') = finalAmount'
                /\ parseFloatOr0(upiAmount') = 0
          /\ paymentMode' = "UPI" =>
                /\ parseFloatOr0(upiAmount') = finalAmount'
                /\ parseFloatOr0(cashAmount') = 0 ]_vars

\* C9: a change of the payment mode to Cash overwrites the cash box with
\* finalAmount formatted to two decimals and the UPI box with 0.00, whatever both
\* held; a change to UPI the reverse; and while the mode is Cash or UPI the boxes
\* hold these values in every state.
C9_ModeStep ==
    (paymentMode' # paymentMode /\ activeItem' = activeItem) =>
        /\ paymentMode' = "Cash" =>
              /\ cashAmount' = toFixed2(finalAmount')
              /\ upiAmount' = <<0>>
        /\ paymentMode' = "UPI" =>
              /\ upiAmount' = toFixed2(finalAmount')
              /\ cashAmount' = <<0>>

C9_BoxesFollowMode ==
    /\ paymentMode = "Cash" => (cashAmount = toFixed2(finalAmount) /\ upiAmount = <<0>>)
    /\ paymentMode = "UPI" => (upiAmount = toFixed2(finalAmount) /\ cashAmount = <<0>>)

C9_ModeOverwritesFormatted == [](C9_BoxesFollowMode) /\ [][C9_ModeStep]_vars

\* C9 witness: mode Cash with an amount payable that is not a whole number of
\* paise, the cash box holding the rounded amount
C9_Witness ==
    /\ paymentMode = "Cash"
    /\ billItems # <<>>
    /\ finalAmount % Cent # 0
    /\ cashAmount = toFixed2(finalAmount)
    /\ cashAmount # << finalAmount >>
    /\ upiAmount = <<0>>

\* C10: when the POST of an invoice fails (a body with success = false, or a
\* rejected request) the submit message becomes an error and the patient fields,
\* the lines, the discount, the payment mode and the cash and UPI amounts are what
\* they were before the failure was handled; the submission is over.
C10_FailureStep ==
    \A o \in { "success_false", "error" } :
        InvoiceResponse(o) =>
            /\ submitMessage'.type = "error"
            /\ ~submitting'
            /\ UNCHANGED <<patientName, phoneNo, isNewPatient, billItems, itemCounter,
                           discount, paymentMode, cashAmount, upiAmount>>

C10_FailureKeepsDraft == [][C10_FailureStep]_vars

\* C10 witness: an error message over a draft in mode Both that still holds its
\* patient, its lines and its amounts
C10_Witness ==
    /\ submitMessage.type = "error"
    /\ ~submitting
    /\ invoicePost = <<>>
    /\ patientName = "Asha"
    /\ billItems # <<>>
    /\ paymentMode = "Both"
    /\ cashAmount = <<10000>>
    /\ upiAmount = <<5000>>

\* the draft of the Pharmacy page is empty: no patient, no lines, no discount, no
\* payment mode, no amounts
DraftCleared ==
    /\ patientName = "" /\ phoneNo = "" /\ ~isNewPatient
    /\ billItems = <<>>
    /\ discount = <<>>
    /\ paymentMode = ""
    /\ cashAmount = <<>> /\ upiAmount = <<>>

\* C11: a submit that passes validation puts exactly one request in flight, and it
\* carries every line of the draft in the order of the draft; the answer success
\* empties the draft (patient fields, lines, discount, payment mode, cash and UPI
\* amounts); neither the submit step nor any other answer changes the draft.
C11_SubmitStep ==
    /\ (HandleSubmit /\ invoicePost' # invoicePost) =>
          /\ invoicePost = <<>>
          /\ Len(invoicePost') = 1
          /\ Len(invoicePost'[1].medicines) = Len(billItems)
          /\ \A i \in 1..Len(billItems) :
                /\ invoicePost'[1].medicines[i].medicine = billItems[i].name
                /\ invoicePost'[1].medicines[i].quantity = billItems[i].qty
                /\ invoicePost'[1].medicines[i].price = billItems[i].price
    /\ HandleSubmit =>
          UNCHANGED <<patientName, phoneNo, isNewPatient, billItems, discount,
                      paymentMode, cashAmount, upiAmount>>
    /\ InvoiceResponse("success") => DraftCleared'
    /\ \A o \in InvoiceOutcomes \ { "success" } :
          InvoiceResponse(o) =>
              UNCHANGED <<patientName, phoneNo, isNewPatient, billItems, discount,
                          paymentMode, cashAmount, upiAmount>>

C11_SubmitSendsAllAndClearsOnSuccess == [][C11_SubmitStep]_vars

\* C11 witness: an invoice in flight with two lines of different medicines, the
\* draft still holding them in the same order
C11_Witness ==
    /\ invoicePost # <<>>
    /\ Len(invoicePost[1].medicines) = 2
    /\ Len(billItems) = 2
    /\ invoicePost[1].medicines[1].medicine = billItems[1].name
    /\ invoicePost[1].medicines[2].medicine = billItems[2].name
    /\ billItems[1].name # billItems[2].name

\* C12: every answer other than success to a submission (Pharmacy invoice,
\* Inventory purchase bill, Payments mark-paid), a body with success = false
\* included, leaves an error message on the page.
C12_AllFailuresReported ==
    [][ \A o \in { "success_false", "error" } :
          /\ InvoiceResponse(o) => submitMessage'.type = "error"
          /\ BillResponse(o) => invMessage'.type = "error"
          /\ PaymentResponse(o) => payMessage'.type = "error" ]_vars

\* C13: the payment modal opens only from a listed row whose status is not
\* 'paid'; a mark-paid request is issued only for the bill of the open modal, with
\* a payment mode among Cash, Bank Transfer, Cheque and UPI; and no operation of
\* the page but the arrival of a listing changes the status a bill is shown with.
C13_RequestsForUnpaidOnly ==
    /\ \A i \in 1..Len(paymentModal) : paymentModal[i].BillPaymentStatus # "paid"
    /\ \A i \in 1..Len(markPaidPost) :
          /\ markPaidPost[i].bill.BillPaymentStatus # "paid"
          /\ markPaidPost[i].payment_mode \in { "Cash", "Bank Transfer", "Cheque", "UPI" }

C13_PayStep ==
    activeItem' = activeItem =>
        /\ (paymentModal' # paymentModal /\ paymentModal' # <<>>) =>
              \E i \in 1..Len(payBills) :
                  /\ payBills[i] = paymentModal'[1]
                  /\ payBills[i].BillPaymentStatus # "paid"
        /\ (markPaidPost' # markPaidPost /\ markPaidPost' # <<>>) =>
              /\ paymentModal # <<>>
              /\ markPaidPost = <<>>
              /\ markPaidPost'[1].bill = paymentModal[1]
        /\ payBills' # payBills => payBillsGets' = payBillsGets - 1

C13_PayOnlyUnpaid == [](C13_RequestsForUnpaidOnly) /\ [][C13_PayStep]_vars

\* C13 witness: a mark-paid request by cheque in flight for the unpaid bill, the
\* paid bill in the same listing
C13_Witness ==
    /\ markPaidPost # <<>>
    /\ markPaidPost[1].bill = UnpaidBill
    /\ markPaidPost[1].payment_mode = "Cheque"
    /\ payBills = << UnpaidBill, PaidBill >>

\* C14: the amount_paid of a mark-paid request is the total of the bill when the
\* Amount Paid box still holds what the modal put there, and the number in the box
\* whenever the operator has put another number there.
C14_AmountPaidAsEntered ==
    [][ (HandlePayment /\ markPaidPost' # markPaidPost) =>
          LET total == paymentModal[1].BillTotal
          IN  /\ payAmountPaid = << total >> => markPaidPost'[1].amount_paid = total
              /\ (payAmountPaid # <<>> /\ payAmountPaid # << total >>) =>
                    markPaidPost'[1].amount_paid = payAmountPaid[1] ]_vars

\* C15: when a mark-paid request fails (a rejected request, or a body with
\* success = false) the step sets no success message, leaves the modal and the
\* values in it as they are and leaves the listing as it is; a success message is
\* set only by the step that handles an answer success.
C15_FailureStep ==
    /\ \A o \in { "success_false", "error" } :
          PaymentResponse(o) =>
              /\ payMessage' = payMessage \/ payMessage'.type = "error"
              /\ UNCHANGED <<paymentModal, payMode, payAmountPaid>>
              /\ payBills' = payBills
              /\ ~payIsProcessing'
    /\ (payMessage' # payMessage /\ payMessage'.type = "success") =>
          PaymentResponse("success")

C15_NoSuccessOnFailure == [][C15_FailureStep]_vars

\* C15 witness: the error of a rejected request over the open modal, which still
\* holds the mode and the amount entered, the bill still listed unpaid
C15_Witness ==
    /\ payMessage = Message("error", "Failed to process payment")
    /\ paymentModal = << UnpaidBill >>
    /\ payMode = "UPI"
    /\ payAmountPaid = <<30000>>
    /\ ~payIsProcessing
    /\ markPaidPost = <<>>
    /\ payBills = << UnpaidBill, PaidBill >>

\* C16: whether the POST to update-price resolves or rejects, the step that
\* handles it sets the success message, closes the modal, starts a fetch of the
\* medicine list and ends the update; the price-update operations never set an
\* error message.
C16_ResponseStep ==
    \A o \in PriceUpdateOutcomes :
        PriceUpdateResponse(o) =>
            /\ invMessage' = Message("success", "Price updated")
            /\ ~showUpdatePriceModal'
            /\ invLoadingMedicines'
            /\ ~updatingPrice'

C16_FailureTreatedAsSuccess == [](invMessage.type # "error") /\ [][C16_ResponseStep]_vars

\* C16 witness: a rejected update-price request was logged, and the page shows the
\* success message with the modal closed and the list being fetched
C16_Witness ==
    /\ priceErrorLogged
    /\ invMessage = Message("success", "Price updated")
    /\ ~showUpdatePriceModal
    /\ invLoadingMedicines
    /\ ~updatingPrice

\* the catalog MRP and the purchase price as numbers, 0 for absent or unparseable
MrpNumber == IF invMedicineDetails = <<>> THEN 0
             ELSE IF invMedicineDetails[1].MRP = <<>> THEN 0
             ELSE invMedicineDetails[1].MRP[1]

PriceNumber == IF invPurchasePrice = <<>> THEN 0 ELSE invPurchasePrice[1]

\* C17: the line an add step appends has price = the purchase price (0 when the
\* box is empty) and difference = catalog MRP - price (MRP 0 when no details
\* are loaded); an add with a medicine and a positive quantity appends the line
\* whatever the difference, and a submit of a complete bill sends every line with
\* its difference whatever its sign.
C17_DifferenceStep ==
    /\ (HandleAddItem /\ ~isNaN(parseInt(invQuantity)) /\ parseInt(invQuantity)[1] > 0) =>
          /\ Len(invItems') = Len(invItems) + 1
          /\ invItems'[Len(invItems')].price = PriceNumber
          /\ invItems'[Len(invItems')].difference = MrpNumber - PriceNumber
          /\ MrpNumber = 0 => invItems'[Len(invItems')].difference = 0 - PriceNumber
    /\ (HandleSubmitBill /\ ~InventoryBillInvalid) =>
          /\ Len(billPost') = 1
          /\ Len(billPost'[1].items) = Len(invItems)
          /\ \A i \in 1..Len(invItems) :
                /\ billPost'[1].items[i].price = invItems[i].price
                /\ billPost'[1].items[i].difference = invItems[i].difference

C17_PriceDifference == [][C17_DifferenceStep]_vars

\* C17 witness: a bill in flight with a line bought at 12.00 without catalog
\* details (difference -12.00) and a line bought above its MRP of 10.00
C17_Witness ==
    /\ billPost # <<>>
    /\ \E i \in 1..Len(billPost[1].items) :
          /\ billPost[1].items[i].price = 12000
          /\ billPost[1].items[i].difference = 0 - 12000
    /\ \E i \in 1..Len(billPost[1].items) :
          /\ billPost[1].items[i].price = 12000
          /\ billPost[1].items[i].difference = 0 - 2000

\* the header amounts as numbers, 0 for an empty box
BoxNumber(t) == IF t = <<>> THEN 0 ELSE t[1]

ExpectedBillTotal ==
    BoxNumber(invBillAmount) + BoxNumber(invTaxAmount)
      - (IF invDiscountInBill = "Yes" THEN BoxNumber(invDiscountAmount) ELSE 0)

\* C18: a request sent by a submit carries BillTotal = bill amount + tax amount -
\* discount amount of the header at that moment, the discount counted only when
\* "Discount in Bill" is Yes and an empty box counted as 0.
C18_SubmitStep ==
    (HandleSubmitBill /\ ~InventoryBillInvalid) =>
        /\ Len(billPost') = 1
        /\ billPost'[1].BillTotal = ExpectedBillTotal
        /\ billPost'[1].BillAmount = BoxNumber(invBillAmount)
        /\ billPost'[1].TaxAmount = BoxNumber(invTaxAmount)
        /\ invDiscountInBill = "No" => billPost'[1].Disc_amount = 0

C19_SelectStep ==
    \A v \in MedicineNames : HandleMedicineSelect(v) => loadingMedicines'

C19_StockRefetchedOnSelect == [][C19_SelectStep]_vars

\* C20: every invoice request in flight has cash_amount >= 0 and upi_amount >= 0,
\* upi_amount = 0 in mode Cash and cash_amount = 0 in mode UPI.
C20_ChannelAmounts ==
    invoicePost # <<>> =>
        /\ invoicePost[1].cash_amount >= 0
        /\ invoicePost[1].upi_amount >= 0
        /\ invoicePost[1].payment_mode = "Cash" => invoicePost[1].upi_amount = 0
        /\ invoicePost[1].payment_mode = "UPI" => invoicePost[1].cash_amount = 0

\* C21: once a 401 has cleared the stored credentials under a rendered protected
\* page, the session eventually is unauthenticated and the router is at /login.
C21_UnauthorizedLeadsToLogin ==
    (mainAppMounted /\ localStorage = <<>>) ~> (~isAuthenticated /\ location = "/login")

\* C22: MainApp is rendered exactly when the router is off /login, the token
\* check has finished and the session is authenticated; when it is not rendered
\* the check is still running (loader) or the router is at /login.
C22_ProtectedOnlyWhenAuthenticated ==
    /\ mainAppMounted <=> (location # "/login" /\ ~authIsLoading /\ isAuthenticated)
    /\ ~mainAppMounted => (authIsLoading \/ location = "/login")
    /\ (location # "/login" /\ ~authIsLoading) => isAuthenticated

\* C22 witness: the operator has logged in while the token check was running,
\* the loader is shown to an authenticated session
C22_Witness ==
    /\ isAuthenticated /\ authIsLoading /\ location = "/" /\ ~mainAppMounted
    /\ toast = Toast("success", "Welcome back!")

\* C23: isAuthenticated turns true only by a login answered with a token (then
\* stored) or a verify answered valid for a stored token; a failed login leaves
\* storage and isAuthenticated as they were; a failed or invalid verify empties
\* the storage; logout empties it and sets isAuthenticated false.
C23_SessionStep ==
    /\ (~isAuthenticated /\ isAuthenticated') =>
          \/ LoginResponse("ok") /\ localStorage' = << StoredSession >>
          \/ VerifyResponse("valid") /\ localStorage # <<>>
    /\ \A o \in { "rejected", "unauthorized" } :
          LoginResponse(o) => UNCHANGED <<localStorage, isAuthenticated>>
    /\ \A o \in { "invalid", "error", "unauthorized" } :
          VerifyResponse(o) => localStorage' = <<>>
    /\ Logout => (localStorage' = <<>> /\ ~isAuthenticated')

C23_AuthenticatedOnlyByLoginOrVerify == [][C23_SessionStep]_vars

\* C24: a timeout that expires while a later change of the name is still waiting
\* issues no request (only the last value of a burst is sent), at most one
\* generate-uhid request is in flight, and once nothing is pending the UHID shown
\* is the one of the name in the form.
C24_TimerStep ==
    (UhidTimerFires /\ Len(uhidTimers) > 1) => uhidGets' = uhidGets

C24_Debounced ==
    /\ [](Len(uhidGets) <= 1)
    /\ []((uhidTimers = <<>> /\ uhidGets = <<>> /\ opPatientName # "" /\ opUhid # "")
            => opUhid = UhidFor(opPatientName))
    /\ [][C24_TimerStep]_vars

\* the quantities of the lines of a draft that name one medicine, added up
RECURSIVE QtyOfMedicine(_, _)
QtyOfMedicine(items, name) ==
    IF items = <<>> THEN 0
    ELSE (IF Head(items).name = name THEN Head(items).qty ELSE 0)
           + QtyOfMedicine(Tail(items), name)

\* C25: in every state of a Pharmacy draft, the quantities of the lines naming a
\* medicine add up to no more than the stock the medicines list gives for it.
C25_DraftWithinStock ==
    \A i \in 1..Len(medicines) :
        QtyOfMedicine(billItems, medicines[i].MName) <= medicines[i].CurrentStock

\* C26: in mode Both, adding a line, removing a line or editing the discount
\* leaves the cash and UPI amounts the operator typed as they are.
C26_SplitStep ==
    (/\ paymentMode = "Both"
     /\ \/ HandleAddMedicine
        \/ \E id \in 1..MaxItems : HandleRemoveMedicine(id)
        \/ \E d \in { <<>>, <<5000>>, <<4>> } : SetDiscount(d))
    => UNCHANGED <<cashAmount, upiAmount>>

C26_SplitAmountsKept == [][C26_SplitStep]_vars

\* C27: when a successful invoice response clears the draft, every line the
\* clear removes is a line of the request that was sent.
C27_ClearStep ==
    InvoiceResponse("success") =>
        /\ Len(billItems) <= Len(invoicePost[1].medicines)
        /\ \A i \in 1..Len(billItems) :
              \E j \in 1..Len(invoicePost[1].medicines) :
                  /\ invoicePost[1].medicines[j].medicine = billItems[i].name
                  /\ invoicePost[1].medicines[j].quantity = billItems[i].qty

C27_NoLineLostUnsent == [][C27_ClearStep]_vars

\* C28: a submit step that puts a request in flight starts from a state with no
\* request of that page in flight (invoice, purchase bill, mark-paid), and while
\* a request is in flight the page's submitting flag, which disables its submit
\* button, is set.
C28_SubmitStep ==
    /\ (HandleSubmit /\ invoicePost' # <<>>) => invoicePost = <<>>
    /\ (HandleSubmitBill /\ billPost' # <<>>) => billPost = <<>>
    /\ (HandlePayment /\ markPaidPost' # <<>>) => markPaidPost = <<>>

C28_OneSubmissionInFlight ==
    /\ [](invoicePost # <<>> => submitting)
    /\ [](billPost # <<>> => invIsSubmitting)
    /\ [](markPaidPost # <<>> => payIsProcessing)
    /\ [][C28_SubmitStep]_vars

\* C28 witness: an invoice is in flight and the operator has gone on to add a
\* line to the draft behind it
C28_Witness ==
    /\ invoicePost # <<>> /\ submitting
    /\ Len(billItems) > Len(invoicePost[1].medicines)

\* C29: the details held for the entry boxes are those of the selected medicine,
\* and the line an add step appends has the difference computed from the catalog
\* MRP of the medicine the line names.
C29_AddStep ==
    (HandleAddItem /\ Len(invItems') = Len(invItems) + 1) =>
        LET line == invItems'[Len(invItems')]
        IN  \/ line.difference = 0 - line.price
            \/ line.difference =
                  CatalogMrpOr0(<< InventoryDetails(line.item_name) >>) - line.price

C29_DetailsOfSelectedMedicine ==
    /\ [](invMedicineDetails # <<>> => invMedicineDetails[1].MName = invSelectedMedicine)
    /\ [][C29_AddStep]_vars

\* a return that is in the list before and after a step changes its status only
\* from 'pending', and only to 'approved' or 'rejected'
C30_StatusStep ==
    \A i \in 1..Len(returns), j \in 1..Len(returns') :
        (returns[i].id = returns'[j].id /\ returns[i].status # returns'[j].status)
            => /\ returns[i].status = "pending"
               /\ returns'[j].status \in { "approved", "rejected" }

\* a return an add step puts into the list is 'pending' and has an id that no
\* return of the list had
C30_AddStep ==
    (HandleAddReturn /\ Len(returns') = Len(returns) + 1) =>
        /\ returns'[1].status = "pending"
        /\ \A i \in 1..Len(returns) : returns[i].id # returns'[1].id

C30_IdsDistinct ==
    \A i, j \in 1..Len(returns) : returns[i].id = returns[j].id => i = j

\* C30 as stated: in every step a status changes only from 'pending' to
\* 'approved' or 'rejected', an approved or rejected return keeps its status for
\* good, and a new return is 'pending' with an id of its own.
C30_StatusOnlyFromPending ==
    [](C30_IdsDistinct) /\ [][C30_StatusStep /\ C30_AddStep]_vars

\* C30 amended: the same, for the steps that leave the Returns screen mounted.
C30_StatusOnlyFromPendingWhileMounted ==
    /\ [](C30_IdsDistinct)
    /\ [][(activeItem' = activeItem) => (C30_StatusStep /\ C30_AddStep)]_vars

\* C30 witness: return 1 was deleted, a return was added with id 3 and rejected
C30_Witness ==
    /\ onReturns
    /\ \E i \in 1..Len(returns) : returns[i].id = 3 /\ returns[i].status = "rejected"
    /\ \A i \in 1..Len(returns) : returns[i].id # 1

====
